---- MODULE Spec2Model ----
(***************************************************************************)
(* lensGate: an OpenAI-Chat-Completions-compatible proxy.  The model       *)
(* follows one POST /v1/chat/completions request through                   *)
(* handleChatCompletions (src/src/handler.ts) and, for a streaming         *)
(* request, through writeSSEStream and the per-event translator            *)
(* eventToSSEChunks (src/src/convert.ts).                                   *)
(*                                                                         *)
(* Node runs one callback at a time: every action below is the code that   *)
(* runs between two suspension points (an await, or an emitted event).     *)
(***************************************************************************)
EXTENDS Integers, Sequences, FiniteSets, TLC

(***************************************************************************)
(* Bounds of the model.                                                    *)
(***************************************************************************)
\* upstream events pulled by one streaming response
MaxEvents == 3
\* upstream content indices carried by events are 0..MaxContentIndex
MaxContentIndex == 1
\* image parts ingested by one request
MaxImages == 2

(***************************************************************************)
(* Values.  JavaScript null/undefined is Null for strings, NoNumber for    *)
(* numbers (readNumber's null, a missing numeric field), and a record      *)
(* with present = FALSE for objects.  A string field that is missing is    *)
(* the empty string: readString treats both alike.                         *)
(***************************************************************************)
Null == "null"
NoNumber == 0 - 1

\* a value that is a number but not a finite one (NaN, Infinity), or not a
\* number at all
NotFinite == 0 - 2

\* a usage object: every key safeNumber is given, each missing
Usage ==
    [present |-> TRUE, input |-> NoNumber, inputTokens |-> NoNumber,
     prompt_tokens |-> NoNumber, output |-> NoNumber,
     outputTokens |-> NoNumber, completion_tokens |-> NoNumber,
     cacheRead |-> NoNumber, cacheReadTokens |-> NoNumber,
     cached_tokens |-> NoNumber, totalTokens |-> NoNumber,
     total_tokens |-> NoNumber]

NoUsageField == [Usage EXCEPT !.present = FALSE]

NullUsage == [present |-> FALSE, prompt_tokens |-> 0, completion_tokens |-> 0,
              total_tokens |-> 0, cached_tokens |-> 0]

NullMessage == [present |-> FALSE, usage |-> NoUsageField]

(***************************************************************************)
(* Upstream events.  Every event is a record with the same fields; a field *)
(* an event does not carry holds the missing value.                        *)
(*   object          FALSE for a non-object event (null, a string, ...)    *)
(*   type/event/kind the three keys getEventType reads                     *)
(*   contentIndex/index/toolCallIndex  the keys readNumber reads           *)
(*   delta/text/content                the keys readString reads for text  *)
(*   partial         readToolCallFromPartial finds a toolCall item         *)
(*   message/errorNested  error text on the event and on event.error       *)
(*   reason          record.reason ?? record.stopReason of a done event    *)
(*   doneMessage     record.message of a done event                        *)
(***************************************************************************)
Ev(t) ==
    [object |-> TRUE, type |-> t, event |-> "", kind |-> "",
     contentIndex |-> NoNumber, index |-> NoNumber, toolCallIndex |-> NoNumber,
     delta |-> "", text |-> "", content |-> "", partial |-> FALSE,
     message |-> "", errorNested |-> "", reason |-> Null,
     doneMessage |-> NullMessage]

\* the loop variable before the first event is pulled
NoEvent == Ev(Null)

ContentIndices == 0..MaxContentIndex

SomeUsage == [Usage EXCEPT !.input = 3, !.output = 2, !.cacheRead = 1]

StartEvents == {Ev("start")}

TextDeltaEvents ==
    {[Ev("text_delta") EXCEPT !.delta = "a"],
     [Ev("text_delta") EXCEPT !.delta = "hello"],
     [Ev("text_delta") EXCEPT !.text = "b", !.contentIndex = MaxContentIndex],
     [Ev("text_delta") EXCEPT !.contentIndex = MaxContentIndex]}

TextEndEvents ==
    {[Ev("text_end") EXCEPT !.content = "c", !.delta = "z"],
     [Ev("text_end") EXCEPT !.text = "d", !.index = MaxContentIndex]}

ToolcallStartEvents ==
    {Ev("toolcall_start")}
    \cup {[Ev("toolcall_start") EXCEPT !.contentIndex = i] : i \in ContentIndices}

ToolcallDeltaEvents ==
    {[Ev("toolcall_delta") EXCEPT !.delta = "x"],
     [Ev("toolcall_delta") EXCEPT !.toolCallIndex = 0, !.partial = TRUE]}
    \cup {[Ev("toolcall_delta") EXCEPT !.delta = "y", !.contentIndex = i] :
             i \in ContentIndices \ {0}}
    \cup {[Ev("toolcall_delta") EXCEPT !.index = MaxContentIndex]}

ErrorEvents ==
    {[Ev("error") EXCEPT !.message = "e"],
     [Ev("error") EXCEPT !.errorNested = "n"]}

DoneEvents ==
    {[Ev("done") EXCEPT !.reason = "stop"],
     [Ev("done") EXCEPT !.reason = "max_tokens",
                        !.doneMessage = [present |-> TRUE, usage |-> SomeUsage]],
     [Ev("done") EXCEPT !.doneMessage = [present |-> TRUE, usage |-> NoUsageField]]}

OtherEvents ==
    {[Ev("") EXCEPT !.kind = "ping"],
     [Ev("thinking_delta") EXCEPT !.delta = "t", !.contentIndex = 0],
     [Ev("") EXCEPT !.object = FALSE]}

Events ==
    StartEvents \cup TextDeltaEvents \cup TextEndEvents \cup ToolcallStartEvents
    \cup ToolcallDeltaEvents \cup ErrorEvents \cup DoneEvents \cup OtherEvents

\* the event sequence start, text_delta "hello", done with reason stop
HelloScenario ==
    <<Ev("start"),
      [Ev("text_delta") EXCEPT !.delta = "hello"],
      [Ev("done") EXCEPT !.reason = "stop"]>>

\* messages of the error an upstream pull can raise (getErrorMessage of it)
IterationFailures == {"boom", ""}

(***************************************************************************)
(* SSE frames written to the response.  kind names the payload shape:      *)
(*   role, content, tool_start, tool_args, finish  chat.completion.chunk   *)
(*   error   {error: {message, type: server_error, ...}}                   *)
(*   usage   the usage-only chunk        done   the line data: [DONE]      *)
(* text is the content / arguments delta / error message, slot the         *)
(* tool_calls[0].index, finish the finish_reason, type and code the        *)
(* fields of that name of an error payload.  src and cidx are not          *)
(* part of the payload: they record the event type the frame was made for  *)
(* and the handler's local contentIndex.                                   *)
(***************************************************************************)
Frame(k) ==
    [kind |-> k, text |-> "", slot |-> NoNumber, finish |-> Null,
     type |-> Null, code |-> Null,
     usage |-> NullUsage, src |-> Null, cidx |-> NoNumber]

DoneLine == Frame("done")

(***************************************************************************)
(* convert.ts: helpers of the stream adapter                               *)
(***************************************************************************)
SetMin(S) == CHOOSE x \in S : \A y \in S : x <= y

getEventType(ev) ==
    IF ~ev.object THEN ""
    ELSE IF ev.type # "" THEN ev.type
    ELSE IF ev.event # "" THEN ev.event
    ELSE IF ev.kind # "" THEN ev.kind
    ELSE ""

readString(record, keys) ==
    LET hits == {i \in 1..Len(keys) : record[keys[i]] # ""}
    IN  IF hits = {} THEN "" ELSE record[keys[SetMin(hits)]]

readNumber(record, keys) ==
    LET hits == {i \in 1..Len(keys) : record[keys[i]] # NoNumber}
    IN  IF hits = {} THEN NoNumber ELSE record[keys[SetMin(hits)]]

safeNumber(values) ==
    LET hits == {i \in 1..Len(values) : values[i] \notin {NoNumber, NotFinite}}
    IN  IF hits = {} THEN 0 ELSE values[SetMin(hits)]

\* mapStopReason without the aborted case
mapStopReasonAbortedStops(stopReason) ==
    IF stopReason \in {"tool_calls", "tool_call", "toolUse", "tool_use"}
    THEN "tool_calls"
    ELSE IF stopReason \in {"max_tokens", "length"} THEN "length"
    ELSE IF stopReason \in {"content_filter", "error"}
    THEN "content_filter"
    ELSE "stop"

mapStopReason(stopReason) ==
    IF stopReason \in {"tool_calls", "tool_call", "toolUse", "tool_use"}
    THEN "tool_calls"
    ELSE IF stopReason \in {"max_tokens", "length"} THEN "length"
    ELSE IF stopReason \in {"content_filter", "error", "aborted"}
    THEN "content_filter"
    ELSE "stop"

createStreamState ==
    [toolCallIndexMap |-> <<>>, nextToolCallIndex |-> 0, textDeltaSeen |-> {},
     emittedAnyOutput |-> FALSE, accumulatedText |-> "",
     streamFinishReason |-> Null, streamUsage |-> NullUsage,
     streamMessage |-> NullMessage]

\* the value returned by eventToSSEChunks together with the mutated state
Result(chunks, state) == [chunks |-> chunks, state |-> state]


(***************************************************************************)
(* convert.ts: eventToSSEChunks, one operator per event-type branch.  Each *)
(* returns the frames the branch pushes and the StreamState it leaves.     *)
(* The chunk fields id, object, created, model and system_fingerprint are  *)
(* the same in every chunk of one stream and are left out, and so are the  *)
(* tool call's id and name, which no state depends on.                     *)
(***************************************************************************)
onStart(record, state) ==
    Result(<<[Frame("role") EXCEPT !.src = "start"]>>, state)

\* onTextDelta that emits the text without appending it to accumulatedText
onTextDeltaNoAccumulate(record, state) ==
    LET deltaText == readString(record, <<"delta", "text", "content">>)
        n == readNumber(record, <<"contentIndex", "index">>)
        contentIndex == IF n = NoNumber THEN 0 ELSE n
    IN  IF deltaText # ""
        THEN Result(<<[Frame("content") EXCEPT !.text = deltaText,
                          !.src = "text_delta", !.cidx = contentIndex]>>,
                    [state EXCEPT !.textDeltaSeen = @ \cup {contentIndex},
                                  !.emittedAnyOutput = TRUE])
        ELSE Result(<<>>, state)

onTextDelta(record, state) ==
    LET deltaText == readString(record, <<"delta", "text", "content">>)
        n == readNumber(record, <<"contentIndex", "index">>)
        contentIndex == IF n = NoNumber THEN 0 ELSE n
    IN  IF deltaText # ""
        THEN Result(<<[Frame("content") EXCEPT !.text = deltaText,
                          !.src = "text_delta", !.cidx = contentIndex]>>,
                    [state EXCEPT !.textDeltaSeen = @ \cup {contentIndex},
                                  !.emittedAnyOutput = TRUE,
                                  !.accumulatedText = @ \o deltaText])
        ELSE Result(<<>>, state)

\* onTextEnd without the textDeltaSeen test
onTextEndUnguarded(record, state) ==
    LET n == readNumber(record, <<"contentIndex", "index">>)
        contentIndex == IF n = NoNumber THEN 0 ELSE n
        text == readString(record, <<"content", "text", "delta">>)
    IN  IF text # ""
        THEN Result(<<[Frame("content") EXCEPT !.text = text,
                          !.src = "text_end", !.cidx = contentIndex]>>,
                    [state EXCEPT !.emittedAnyOutput = TRUE,
                                  !.accumulatedText = @ \o text])
        ELSE Result(<<>>, state)

onTextEnd(record, state) ==
    LET n == readNumber(record, <<"contentIndex", "index">>)
        contentIndex == IF n = NoNumber THEN 0 ELSE n
        text == readString(record, <<"content", "text", "delta">>)
    IN  IF text # "" /\ contentIndex \notin state.textDeltaSeen
        THEN Result(<<[Frame("content") EXCEPT !.text = text,
                          !.src = "text_end", !.cidx = contentIndex]>>,
                    [state EXCEPT !.emittedAnyOutput = TRUE,
                                  !.accumulatedText = @ \o text])
        ELSE Result(<<>>, state)

\* onToolcallStart that allocates a slot without advancing nextToolCallIndex
onToolcallStartNoIncrement(record, state) ==
    LET n == readNumber(record, <<"contentIndex", "index", "toolCallIndex">>)
        contentIndex == IF n = NoNumber THEN state.nextToolCallIndex ELSE n
        known == contentIndex \in DOMAIN state.toolCallIndexMap
        openAiToolCallIndex ==
            IF known THEN state.toolCallIndexMap[contentIndex]
            ELSE state.nextToolCallIndex
        allocated ==
            IF known THEN state
            ELSE [state EXCEPT
                    !.toolCallIndexMap = (contentIndex :> openAiToolCallIndex) @@ @]
    IN  Result(<<[Frame("tool_start") EXCEPT !.slot = openAiToolCallIndex,
                     !.src = "toolcall_start", !.cidx = contentIndex]>>,
               [allocated EXCEPT !.emittedAnyOutput = TRUE])

onToolcallStart(record, state) ==
    LET n == readNumber(record, <<"contentIndex", "index", "toolCallIndex">>)
        contentIndex == IF n = NoNumber THEN state.nextToolCallIndex ELSE n
        known == contentIndex \in DOMAIN state.toolCallIndexMap
        openAiToolCallIndex ==
            IF known THEN state.toolCallIndexMap[contentIndex]
            ELSE state.nextToolCallIndex
        allocated ==
            IF known THEN state
            ELSE [state EXCEPT
                    !.toolCallIndexMap = (contentIndex :> openAiToolCallIndex) @@ @,
                    !.nextToolCallIndex = @ + 1]
    IN  Result(<<[Frame("tool_start") EXCEPT !.slot = openAiToolCallIndex,
                     !.src = "toolcall_start", !.cidx = contentIndex]>>,
               [allocated EXCEPT !.emittedAnyOutput = TRUE])

\* onToolcallDelta that allocates a slot without looking the index up
onToolcallDeltaAlwaysAllocates(record, state) ==
    LET n == readNumber(record, <<"contentIndex", "index", "toolCallIndex">>)
        contentIndex == IF n = NoNumber THEN 0 ELSE n
        openAiToolCallIndex == state.nextToolCallIndex
        allocated ==
            [state EXCEPT
               !.toolCallIndexMap = (contentIndex :> openAiToolCallIndex) @@ @,
               !.nextToolCallIndex = @ + 1]
        argumentsDelta == readString(record, <<"delta">>)
    IN  IF argumentsDelta # "" \/ record.partial
        THEN Result(<<[Frame("tool_args") EXCEPT !.text = argumentsDelta,
                          !.slot = openAiToolCallIndex,
                          !.src = "toolcall_delta", !.cidx = contentIndex]>>,
                    [allocated EXCEPT !.emittedAnyOutput = TRUE])
        ELSE Result(<<>>, allocated)

onToolcallDelta(record, state) ==
    LET n == readNumber(record, <<"contentIndex", "index", "toolCallIndex">>)
        contentIndex == IF n = NoNumber THEN 0 ELSE n
        known == contentIndex \in DOMAIN state.toolCallIndexMap
        openAiToolCallIndex ==
            IF known THEN state.toolCallIndexMap[contentIndex]
            ELSE state.nextToolCallIndex
        allocated ==
            IF known THEN state
            ELSE [state EXCEPT
                    !.toolCallIndexMap = (contentIndex :> openAiToolCallIndex) @@ @,
                    !.nextToolCallIndex = @ + 1]
        argumentsDelta == readString(record, <<"delta">>)
    IN  IF argumentsDelta # "" \/ record.partial
        THEN Result(<<[Frame("tool_args") EXCEPT !.text = argumentsDelta,
                          !.slot = openAiToolCallIndex,
                          !.src = "toolcall_delta", !.cidx = contentIndex]>>,
                    [allocated EXCEPT !.emittedAnyOutput = TRUE])
        ELSE Result(<<>>, allocated)

\* onError that also settles the finish reason
onErrorSetsFinishReason(record, state) ==
    LET own == readString(record, <<"message">>)
        message ==
            IF own # "" THEN own
            ELSE IF record.errorNested # "" THEN record.errorNested
            ELSE "Upstream model error."
    IN  Result(<<[Frame("error") EXCEPT !.text = message,
                     !.type = "server_error", !.code = "upstream_model_error",
                     !.src = "error"]>>,
               [state EXCEPT !.streamFinishReason = "content_filter"])

onError(record, state) ==
    LET own == readString(record, <<"message">>)
        message ==
            IF own # "" THEN own
            ELSE IF record.errorNested # "" THEN record.errorNested
            ELSE "Upstream model error."
    IN  Result(<<[Frame("error") EXCEPT !.text = message,
                     !.type = "server_error", !.code = "upstream_model_error",
                     !.src = "error"]>>,
               state)

\* normalizeUsage counting the cache-read tokens out of the prompt
normalizeUsageInputOnly(usage) ==
    LET inputTokens ==
            safeNumber(<<usage.input, usage.inputTokens, usage.prompt_tokens>>)
        outputTokens ==
            safeNumber(<<usage.output, usage.outputTokens,
                         usage.completion_tokens>>)
        cacheRead ==
            safeNumber(<<usage.cacheRead, usage.cacheReadTokens,
                         usage.cached_tokens>>)
        explicitTotal == safeNumber(<<usage.totalTokens, usage.total_tokens>>)
    IN  [present |-> TRUE,
         prompt_tokens |-> inputTokens,
         completion_tokens |-> outputTokens,
         total_tokens |-> IF explicitTotal # 0 THEN explicitTotal
                          ELSE inputTokens + outputTokens,
         cached_tokens |-> cacheRead]

normalizeUsage(usage) ==
    LET inputTokens ==
            safeNumber(<<usage.input, usage.inputTokens, usage.prompt_tokens>>)
        outputTokens ==
            safeNumber(<<usage.output, usage.outputTokens,
                         usage.completion_tokens>>)
        cacheRead ==
            safeNumber(<<usage.cacheRead, usage.cacheReadTokens,
                         usage.cached_tokens>>)
        explicitTotal == safeNumber(<<usage.totalTokens, usage.total_tokens>>)
    IN  [present |-> TRUE,
         prompt_tokens |-> inputTokens + cacheRead,
         completion_tokens |-> outputTokens,
         total_tokens |-> IF explicitTotal # 0 THEN explicitTotal
                          ELSE inputTokens + cacheRead + outputTokens,
         cached_tokens |-> cacheRead]

onDone(record, state) ==
    LET finishReason == mapStopReason(record.reason)
        settled == [state EXCEPT !.streamFinishReason = finishReason]
        captured ==
            IF ~record.doneMessage.present THEN settled
            ELSE IF ~record.doneMessage.usage.present
            THEN [settled EXCEPT !.streamMessage = record.doneMessage]
            ELSE [settled EXCEPT
                    !.streamMessage = record.doneMessage,
                    !.streamUsage = normalizeUsage(record.doneMessage.usage)]
    IN  Result(<<[Frame("finish") EXCEPT !.finish = finishReason, !.src = "done"]>>,
               captured)

\* eventToSSEChunks forwarding the delta of an event of unknown type as text
eventToSSEChunksForwardsUnknown(record, state) ==
    LET eventType == getEventType(record)
    IN  IF ~record.object THEN Result(<<>>, state)
        ELSE IF eventType = "start" THEN onStart(record, state)
        ELSE IF eventType = "text_delta" THEN onTextDelta(record, state)
        ELSE IF eventType = "text_end" THEN onTextEnd(record, state)
        ELSE IF eventType = "toolcall_start" THEN onToolcallStart(record, state)
        ELSE IF eventType = "toolcall_delta" THEN onToolcallDelta(record, state)
        ELSE IF eventType = "error" THEN onError(record, state)
        ELSE IF eventType = "done" THEN onDone(record, state)
        ELSE onTextDelta(record, state)

eventToSSEChunks(event, state) ==
    LET eventType == getEventType(event)
    IN  IF ~event.object THEN Result(<<>>, state)
        ELSE IF eventType = "start" THEN onStart(event, state)
        ELSE IF eventType = "text_delta" THEN onTextDelta(event, state)
        ELSE IF eventType = "text_end" THEN onTextEnd(event, state)
        ELSE IF eventType = "toolcall_start" THEN onToolcallStart(event, state)
        ELSE IF eventType = "toolcall_delta" THEN onToolcallDelta(event, state)
        ELSE IF eventType = "error" THEN onError(event, state)
        ELSE IF eventType = "done" THEN onDone(event, state)
        ELSE Result(<<>>, state)

formatUsageSSEChunk(state) ==
    IF ~state.streamUsage.present THEN <<>>
    ELSE <<[Frame("usage") EXCEPT !.usage = state.streamUsage]>>


(***************************************************************************)
(* convert.ts: the non-streaming assembler.  A terminal message is a       *)
(* record:                                                                 *)
(*   usage                       its usage object                          *)
(*   stopReason/stop_reason/reason  Null when missing                      *)
(*   toolCalls/tool_calls        NoArray when the key holds no array, else *)
(*                               the array's items: "object" for an        *)
(*                               object, "junk" for anything else          *)
(*   contentToolCalls            how many items of type toolCall its       *)
(*                               content array holds                       *)
(***************************************************************************)
NoArray == [array |-> FALSE, items |-> <<>>]
Array(items) == [array |-> TRUE, items |-> items]

Message(usage) ==
    [present |-> TRUE, usage |-> usage, stopReason |-> Null,
     stop_reason |-> Null, reason |-> Null, toolCalls |-> NoArray,
     tool_calls |-> NoArray, contentToolCalls |-> 0]

\* a ?? b
coalesce(a, b) == IF a # Null THEN a ELSE b

\* openAiToolCallsFromMessage: how many calls it returns
openAiToolCallsFromMessage(message) ==
    LET structuredCalls ==
            IF message.toolCalls.array THEN message.toolCalls.items
            ELSE IF message.tool_calls.array THEN message.tool_calls.items
            ELSE <<>>
        contentCalls == [i \in 1..message.contentToolCalls |-> "object"]
        source == IF Len(structuredCalls) > 0 THEN structuredCalls
                  ELSE contentCalls
    IN  Cardinality({i \in 1..Len(source) : source[i] = "object"})

\* the finish reason of the assembler without the tool-call override
assembledFinishReasonNoOverride(toolCalls, stopReason) ==
    mapStopReason(stopReason)

assembledFinishReason(toolCalls, stopReason) ==
    IF toolCalls > 0 THEN "tool_calls" ELSE mapStopReason(stopReason)

\* the usage object of assistantMessageToResponse
assembledUsage(usage) ==
    LET promptTokens ==
            safeNumber(<<usage.prompt_tokens, usage.inputTokens, usage.input>>)
            + safeNumber(<<usage.cacheReadTokens, usage.cacheRead>>)
        completionTokens ==
            safeNumber(<<usage.completion_tokens, usage.outputTokens,
                         usage.output>>)
        cachedTokens ==
            safeNumber(<<usage.cached_tokens, usage.cacheReadTokens,
                         usage.cacheRead>>)
    IN  [present |-> TRUE,
         prompt_tokens |-> promptTokens,
         completion_tokens |-> completionTokens,
         total_tokens |-> promptTokens + completionTokens,
         cached_tokens |-> cachedTokens]

NoCompletion == [present |-> FALSE]

\* assistantMessageToResponse: the choices and the usage of the completion
assistantMessageToResponse(message) ==
    [present |-> TRUE,
     choices |->
        <<[index |-> 0,
           tool_calls |-> openAiToolCallsFromMessage(message),
           finish_reason |->
              assembledFinishReason(openAiToolCallsFromMessage(message),
                                    coalesce(message.stopReason,
                                             message.reason))]>>,
     usage |-> assembledUsage(message.usage)]


(***************************************************************************)
(* handler.ts: errors and the JSON error answer                            *)
(***************************************************************************)
\* an error value: its class, its code field, and whether isRateLimitError
\* finds rate_limit / usage_limit in its message or code
Err(name, code) == [name |-> name, code |-> code, rateLimit |-> FALSE]

NoError == Err(Null, Null)

errorStatus(error) ==
    IF error.name = "NotLoggedInError" THEN 401
    ELSE IF error.name \in {"ImageNotSupportedError", "UnknownModelError",
                            "InvalidRequestError", "InvalidJSONError"} THEN 400
    ELSE IF error.name = "PayloadTooLargeError" THEN 413
    ELSE IF error.name = "UpstreamModelError"
    THEN (IF error.rateLimit THEN 429 ELSE 502)
    ELSE IF error.rateLimit THEN 429
    ELSE 500

errorCode(error) ==
    IF error.name = "NotLoggedInError" THEN "not_logged_in"
    ELSE IF error.name = "ImageNotSupportedError" THEN "image_not_supported"
    ELSE IF error.name = "UnknownModelError" THEN "unknown_model"
    ELSE IF error.name = "InvalidRequestError" THEN error.code
    ELSE IF error.name = "InvalidJSONError" THEN "invalid_json"
    ELSE IF error.name = "PayloadTooLargeError" THEN "payload_too_large"
    ELSE IF error.name = "UpstreamModelError"
    THEN (IF error.rateLimit THEN "rate_limit" ELSE error.code)
    ELSE IF error.rateLimit THEN "rate_limit"
    ELSE "proxy_internal_error"

\* response.writableEnded
writableEnded(resp) == resp.endCount > 0

sendJson(resp, statusCode, jsonBody) ==
    [resp EXCEPT !.statusCode = statusCode, !.contentType = "application/json",
                 !.jsonBody = jsonBody, !.headersSent = TRUE, !.endCount = @ + 1]

handleRequestError(resp, error) ==
    sendJson(resp, errorStatus(error), errorCode(error))

\* a catch block that answers nothing
handleRequestCatchSilent(resp, error) == resp

\* a catch block that answers with the JSON error whatever was sent before
handleRequestCatchAlwaysSends(resp, error) == handleRequestError(resp, error)

\* the catch block of handleRequest
handleRequestCatch(resp, error) ==
    IF resp.headersSent
    THEN (IF ~writableEnded(resp) THEN [resp EXCEPT !.endCount = @ + 1] ELSE resp)
    ELSE handleRequestError(resp, error)


(***************************************************************************)
(* convert.ts: image ingestion.                                            *)
(*                                                                         *)
(* An IPv4 address is its four octets, an IPv6 address its eight 16-bit    *)
(* groups.  A domain name is the sequence of its labels, lower case; a     *)
(* name that ends in a dot has an empty last label.  A hostname            *)
(* string is a record: what kind of text it is, whether an IPv6 text       *)
(* stands in square brackets, and whether an IPv4-mapped IPv6 text writes  *)
(* its last 32 bits in dotted notation (::ffff:127.0.0.1) rather than as   *)
(* two hexadecimal groups (::ffff:7f00:1).                                 *)
(***************************************************************************)
\* the byte cap of a remote image body, scaled down
MAX_REMOTE_IMAGE_BYTES == 2
\* bytes one read of the body can deliver
MaxChunkBytes == 2
\* messages of one request
MaxMessages == 2

NoV4 == <<0, 0, 0, 0>>
NoV6 == <<0, 0, 0, 0, 0, 0, 0, 0>>

Host(kind) ==
    [kind |-> kind, labels |-> <<>>, v4 |-> NoV4, v6 |-> NoV6,
     bracketed |-> FALSE, dotted |-> FALSE]

DomainHost(labels) == [Host("domain") EXCEPT !.labels = labels]
V4Host(octets) == [Host("ipv4") EXCEPT !.v4 = octets]
\* an IPv6 literal as it stands in a URL, between square brackets
V6Host(groups, dotted) ==
    [Host("ipv6") EXCEPT !.v6 = groups, !.bracketed = TRUE, !.dotted = dotted]

\* the groups of the IPv4-mapped IPv6 address of an IPv4 address
MappedGroups(octets) ==
    <<0, 0, 0, 0, 0, 65535, octets[1] * 256 + octets[2],
      octets[3] * 256 + octets[4]>>

IsMappedGroups(groups) ==
    /\ \A i \in 1..5 : groups[i] = 0
    /\ groups[6] = 65535

EmbeddedV4(groups) ==
    <<groups[7] \div 256, groups[7] % 256, groups[8] \div 256, groups[8] % 256>>

\* net.isIP of a hostname string: text in brackets is not an IP address
isIP(hostname) ==
    IF hostname.kind = "ipv4" THEN 4
    ELSE IF hostname.kind = "ipv6" /\ ~hostname.bracketed THEN 6
    ELSE 0

\* PRIVATE_ADDRESS_BLOCKLIST.check(address, "ipv4")
blockListCheckV4(a) ==
    \/ a[1] = 0
    \/ a[1] = 10
    \/ a[1] = 100 /\ a[2] \div 64 = 1
    \/ a[1] = 127
    \/ a[1] = 169 /\ a[2] = 254
    \/ a[1] = 172 /\ a[2] \div 16 = 1
    \/ a[1] = 192 /\ a[2] = 168

\* PRIVATE_ADDRESS_BLOCKLIST.check(address, "ipv6"); a BlockList matches an
\* IPv4-mapped IPv6 address against its IPv4 rules
blockListCheckV6(g) ==
    IF IsMappedGroups(g) THEN blockListCheckV4(EmbeddedV4(g))
    ELSE \/ g = NoV6
         \/ g = <<0, 0, 0, 0, 0, 0, 0, 1>>
         \/ g[1] \div 512 = 126
         \/ g[1] \div 64 = 1018

\* URL.hostname: the host of the parsed URL serialized; an IPv6 address is
\* serialized in hexadecimal groups between square brackets
urlHostname(host) ==
    IF host.kind = "ipv6"
    THEN [host EXCEPT !.bracketed = TRUE, !.dotted = FALSE]
    ELSE host

\* hostname.trim().toLowerCase().replace(/\.$/, "")
normalizeHostname(hostname) ==
    LET n == Len(hostname.labels)
    IN  IF hostname.kind = "domain" /\ n > 0 /\ hostname.labels[n] = ""
        THEN [hostname EXCEPT !.labels = SubSeq(@, 1, n - 1)]
        ELSE hostname

isBlockedImageHostname(hostname) ==
    LET normalized == normalizeHostname(hostname)
        ipVersion == isIP(normalized)
    IN  IF normalized.kind = "domain" /\ normalized.labels = <<>> THEN TRUE
        ELSE IF /\ normalized.kind = "domain"
                /\ normalized.labels[Len(normalized.labels)] = "localhost"
        THEN TRUE
        ELSE IF ipVersion = 4 THEN blockListCheckV4(normalized.v4)
        ELSE IF ipVersion = 6
        THEN IF /\ IsMappedGroups(normalized.v6)
                /\ normalized.dotted
                /\ blockListCheckV4(EmbeddedV4(normalized.v6))
             THEN TRUE
             ELSE blockListCheckV6(normalized.v6)
        ELSE FALSE

\* a media type; NoMime is the empty string
Mime(type, subtype) == [type |-> type, subtype |-> subtype]
NoMime == Mime("", "")

isImageMimeType(mimeType) == mimeType.type = "image"

inferMimeTypeFromUrl(url) ==
    IF url.ext = ".png" THEN Mime("image", "png")
    ELSE IF url.ext \in {".jpg", ".jpeg"} THEN Mime("image", "jpeg")
    ELSE IF url.ext = ".webp" THEN Mime("image", "webp")
    ELSE IF url.ext = ".gif" THEN Mime("image", "gif")
    ELSE IF url.ext = ".bmp" THEN Mime("image", "bmp")
    ELSE IF url.ext = ".svg" THEN Mime("image", "svg+xml")
    ELSE IF url.ext = ".avif" THEN Mime("image", "avif")
    ELSE IF url.ext \in {".tif", ".tiff"} THEN Mime("image", "tiff")
    ELSE IF url.ext = ".heic" THEN Mime("image", "heic")
    ELSE IF url.ext = ".heif" THEN Mime("image", "heif")
    ELSE NoMime

(***************************************************************************)
(* An image_url value.                                                     *)
(*   blank    the trimmed value is empty                                   *)
(*   scheme   data, http, https, ftp; Null when new URL() rejects the text *)
(*   comma, mime, base64, payload   of a data URI: it has a comma, its     *)
(*            first metadata part (NoMime when absent or holding "="), the *)
(*            base64 flag, the text after the comma                        *)
(*   host, ext   of another URL: its host and its path's extension         *)
(***************************************************************************)
Url(scheme) ==
    [blank |-> FALSE, scheme |-> scheme, comma |-> TRUE, mime |-> NoMime,
     base64 |-> FALSE, payload |-> "", host |-> DomainHost(<<>>), ext |-> ""]

NoImage == [Url(Null) EXCEPT !.blank = TRUE]

\* the outcome of a step of ingestion: it throws error, it returns the
\* payload, or it goes on (to the fetch)
Throws(error) == [outcome |-> "throw", error |-> error]
Returns == [outcome |-> "return", error |-> NoError]
GoesOn == [outcome |-> "goOn", error |-> NoError]

ImageNotSupportedError == Err("ImageNotSupportedError", Null)

\* decodeURIComponent throws URIError on a malformed escape sequence
malformedEscape(payload) == payload \in {"%", "%E0%A4%A"}

parseDataUrl(dataUrl) ==
    LET mimeType == IF dataUrl.mime # NoMime THEN dataUrl.mime
                    ELSE Mime("text", "plain")
    IN  IF ~dataUrl.comma THEN Throws(ImageNotSupportedError)
        ELSE IF ~isImageMimeType(mimeType) THEN Throws(ImageNotSupportedError)
        ELSE IF dataUrl.base64
        THEN (IF dataUrl.payload = "" THEN Throws(ImageNotSupportedError)
              ELSE Returns)
        ELSE IF malformedEscape(dataUrl.payload)
        THEN Throws(Err("URIError", Null))
        ELSE Returns

\* toPiImageContent up to its await
toPiImageContent(urlValue) ==
    IF urlValue.blank THEN Throws(ImageNotSupportedError)
    ELSE IF urlValue.scheme = "data" THEN parseDataUrl(urlValue)
    ELSE IF urlValue.scheme = Null THEN Throws(ImageNotSupportedError)
    ELSE IF urlValue.scheme \notin {"http", "https"}
    THEN Throws(ImageNotSupportedError)
    ELSE IF isBlockedImageHostname(urlHostname(urlValue.host))
    THEN Throws(ImageNotSupportedError)
    ELSE GoesOn

(***************************************************************************)
(* State of one request.                                                   *)
(***************************************************************************)
VARIABLES
    pc,                    \* the await handleChatCompletions is suspended at
    authorized,            \* validateApiKeyHeader returned
    body,                  \* the parsed request body
    model,                 \* resolveCodexModel returned a model
    accessToken,           \* getAccessToken returned a token
    context,               \* openAIRequestToContext returned the context
    imagesIngested,        \* image parts ingested so far by the translation
    imagesStarted,         \* calls of toPiImageContent so far
    image,                 \* the image_url value toPiImageContent was called on
    imagePhase,            \* the await the ingestion is suspended at
    messages,              \* openAIRequestToContext: messages pushed so far
    partial,               \* a user message's parts array is being filled
    fetchesInFlight,       \* calls of fetchRemoteImageAsBase64 not yet settled
    mimeType,              \* fetchRemoteImageAsBase64: mimeType
    totalBytes,            \* readResponseBodyLimited: totalBytes
    chunksBytes,           \* readResponseBodyLimited: bytes held in chunks
    readerCancelled,       \* reader.cancel() was called
    request,               \* the URL of the HTTP request fetch has in flight
    upstreamCalls,         \* calls of streamSimple
    aborted,               \* upstreamAbortController.signal.aborted
    listeners,             \* listeners registered for the response's close event
    connClosed,            \* the response has emitted close
    state,                 \* writeSSEStream: the StreamState
    closed,                \* writeSSEStream: closed
    clientDisconnected,    \* writeSSEStream: clientDisconnected
    iterationErrorMessage, \* writeSSEStream: iterationErrorMessage
    pulled,                \* events the for-await loop has pulled
    event,                 \* the loop variable: the event pulled last
    arrival,               \* history: how many events of HelloScenario the
                           \* upstream has yielded so far, in order and with
                           \* no other event; NoNumber once it yielded another
    outcome,               \* the record writeSSEStream returned
    response,              \* the ServerResponse
    written,               \* the frames given to response.write, in order
    caughtError,           \* the error handleRequest's catch block received
    route,                 \* the request's method and pathname
    expectedApiKey,        \* PROXY_API_KEY, until validateApiKeyHeader has
                           \* accepted the request
    authHeader,            \* request.headers.authorization, until
                           \* validateApiKeyHeader has accepted the request
    requestedModelId,      \* handleChatCompletions: requestedModelId
    resolvedModelId,       \* the id of the model resolveCodexModel returned
    bodyPromise,           \* the promise readRequestBody returned
    bodyTotalBytes,        \* readRequestBody: totalBytes
    bodyChunksBytes,       \* readRequestBody: bytes held in chunks
    requestEnded,          \* the request stream has emitted end
    finalMessage,          \* what getFinalAssistantMessage resolved to
    peer,                  \* the stream of a second request served at the
                           \* same time
    arg,                   \* the argument of a function applied on its own
    result                 \* what the applications of that function returned

vars ==
    <<pc, authorized, body, model, accessToken, context, imagesIngested,
      imagesStarted, image, imagePhase, messages, partial, fetchesInFlight,
      mimeType, totalBytes, chunksBytes, readerCancelled, request,
      upstreamCalls, aborted, listeners, connClosed, state, closed,
      clientDisconnected, iterationErrorMessage, pulled, event, arrival,
      outcome, response, written, caughtError, route, expectedApiKey,
      authHeader,
      requestedModelId, resolvedModelId, bodyPromise, bodyTotalBytes,
      bodyChunksBytes, requestEnded, finalMessage, peer, arg, result>>

ingestVars == <<imagesStarted, image, imagePhase, messages, partial,
                fetchesInFlight, mimeType, totalBytes, chunksBytes,
                readerCancelled, request>>

inboundVars == <<route, expectedApiKey, authHeader, requestedModelId, resolvedModelId,
                 bodyPromise, bodyTotalBytes, bodyChunksBytes, requestEnded>>

functionVars == <<arg, result>>

restVars == <<inboundVars, finalMessage, peer, functionVars>>

requestVars == <<authorized, body, model, accessToken, context, imagesIngested,
                 ingestVars, restVars>>

streamVars == <<state, closed, clientDisconnected, iterationErrorMessage, pulled,
                event, arrival, outcome, written>>

\* the routes handleRequest tells apart; "other" is any other method and path
Routes ==
    {"OPTIONS", "GET /v1/models", "POST /v1/chat/completions", "other"}

NoPeer == [present |-> FALSE]

\* finalMessage before getFinalAssistantMessage has resolved
NotAwaited == [present |-> FALSE, awaited |-> FALSE]

\* PROXY_API_KEY: "" when it is not configured
ConfiguredKeys == {"", "k"}

\* an Authorization header: the scheme before the first space, whether
\* white space surrounds what follows it, and what follows it, trimmed
NoAuthorization ==
    [present |-> FALSE, scheme |-> "", padded |-> FALSE, key |-> ""]

Authorization(scheme, padded, key) ==
    [present |-> TRUE, scheme |-> scheme, padded |-> padded, key |-> key]

AuthorizationHeaders ==
    {NoAuthorization, Authorization("Basic", FALSE, "k"),
     Authorization("Bearer", FALSE, "k"), Authorization("Bearer", FALSE, "w"),
     Authorization("Bearer", TRUE, "k")}

NoBody == [parsed |-> FALSE, stream |-> FALSE, include_usage |-> FALSE]

NoOutcome ==
    [returned |-> FALSE, emittedAnyOutput |-> FALSE, accumulatedText |-> "",
     streamFinishReason |-> Null, streamMessage |-> NullMessage,
     streamUsage |-> NullUsage, iterationErrorMessage |-> Null,
     clientDisconnected |-> FALSE]

NewResponse ==
    [statusCode |-> 200, contentType |-> Null, jsonBody |-> Null,
     completion |-> NoCompletion, headersSent |-> FALSE, endCount |-> 0]

Init ==
    /\ pc = "handleRequest"
    /\ authorized = FALSE
    /\ body = NoBody
    /\ model = FALSE
    /\ accessToken = FALSE
    /\ context = FALSE
    /\ imagesIngested = 0
    /\ imagesStarted = 0
    /\ image = NoImage
    /\ imagePhase = "none"
    /\ messages = 0
    /\ partial = FALSE
    /\ fetchesInFlight = 0
    /\ mimeType = NoMime
    /\ totalBytes = 0
    /\ chunksBytes = 0
    /\ readerCancelled = FALSE
    /\ request = NoImage
    /\ upstreamCalls = 0
    /\ aborted = FALSE
    /\ listeners = {}
    /\ connClosed = FALSE
    /\ state = createStreamState
    /\ closed = FALSE
    /\ clientDisconnected = FALSE
    /\ iterationErrorMessage = Null
    /\ pulled = 0
    /\ event = NoEvent
    /\ arrival = 0
    /\ outcome = NoOutcome
    /\ response = NewResponse
    /\ written = <<>>
    /\ caughtError = NoError
    /\ route \in Routes
    /\ expectedApiKey \in ConfiguredKeys
    /\ authHeader \in AuthorizationHeaders
    /\ requestedModelId = Null
    /\ resolvedModelId = Null
    /\ bodyPromise = "none"
    /\ bodyTotalBytes = 0
    /\ bodyChunksBytes = 0
    /\ requestEnded = FALSE
    /\ finalMessage = NotAwaited
    /\ peer = NoPeer
    /\ arg = [fn |-> Null]
    /\ result = <<>>

(***************************************************************************)
(* handleChatCompletions up to the upstream call.  A step that throws      *)
(* rejects handleChatCompletions; the rejection reaches the catch block of *)
(* handleRequest in the same turn of the event loop.                       *)
(***************************************************************************)
\* stepAfter with the upstream call moved before the token is awaited
stepAfterSkipsToken(step) ==
    IF step = "validateApiKeyHeader" THEN "parseChatRequest"
    ELSE IF step = "parseChatRequest" THEN "resolveCodexModel"
    ELSE IF step = "resolveCodexModel" THEN "openAIRequestToContext"
    ELSE "streamSimple"

\* the order of the awaited steps of handleChatCompletions, up to the
\* upstream call
stepAfter(step) ==
    IF step = "validateApiKeyHeader" THEN "parseChatRequest"
    ELSE IF step = "parseChatRequest" THEN "resolveCodexModel"
    ELSE IF step = "resolveCodexModel" THEN "getAccessToken"
    ELSE IF step = "getAccessToken" THEN "openAIRequestToContext"
    ELSE "streamSimple"

\* an error that is recorded while handleChatCompletions goes on to the
\* upstream call
ThrowGoesOn(error) ==
    /\ caughtError' = error
    /\ response' = response
    /\ listeners' = listeners
    /\ pc' = "streamSimple"

\* an error thrown out of handleChatCompletions: its finally block removes
\* abortUpstream from the close listeners, then handleRequest catches
Throw(error) ==
    /\ caughtError' = error
    /\ response' = handleRequestCatch(response, error)
    /\ listeners' = listeners \ {"abortUpstream"}
    /\ pc' = "finished"

\* The key and the header are dropped from the state once the request is
\* accepted: nothing reads them again.
validateApiKeyHeaderAcceptsAll(expected, header) == NoError

validateApiKeyHeaderError(expected, header) ==
    IF expected = "" THEN NoError
    ELSE IF ~header.present \/ header.scheme # "Bearer"
    THEN Err("InvalidRequestError", "missing_authorization")
    ELSE IF header.key # expected
    THEN Err("InvalidRequestError", "invalid_api_key")
    ELSE NoError

\* handleRequest for OPTIONS
HandleOptions ==
    /\ pc = "handleRequest"
    /\ route = "OPTIONS"
    /\ response' = [response EXCEPT !.statusCode = 204, !.headersSent = TRUE,
                                    !.endCount = @ + 1]
    /\ pc' = "finished"
    /\ UNCHANGED <<upstreamCalls, aborted, listeners, connClosed, caughtError>>
    /\ UNCHANGED requestVars
    /\ UNCHANGED streamVars

\* handleRequest for GET /v1/models: validateApiKeyHeader, then handleModels
HandleModels ==
    /\ pc = "handleRequest"
    /\ route = "GET /v1/models"
    /\ LET error == validateApiKeyHeaderError(expectedApiKey, authHeader)
       IN  IF error = NoError
           THEN /\ response' = sendJson(response, 200, "list")
                /\ expectedApiKey' = Null
                /\ authHeader' = NoAuthorization
                /\ pc' = "finished"
                /\ UNCHANGED <<caughtError, listeners>>
           ELSE /\ Throw(error)
                /\ UNCHANGED <<expectedApiKey, authHeader>>
    /\ UNCHANGED <<authorized, body, model, accessToken, context,
                   imagesIngested, upstreamCalls, aborted, connClosed, route,
                   requestedModelId, resolvedModelId, bodyPromise,
                   bodyTotalBytes, bodyChunksBytes, requestEnded,
                   finalMessage, peer>>
    /\ UNCHANGED functionVars
    /\ UNCHANGED ingestVars
    /\ UNCHANGED streamVars

\* handleRequest for any other method and path
RouteNotFound ==
    /\ pc = "handleRequest"
    /\ route = "other"
    /\ response' = sendJson(response, 404, "not_found")
    /\ pc' = "finished"
    /\ UNCHANGED <<upstreamCalls, aborted, listeners, connClosed, caughtError>>
    /\ UNCHANGED requestVars
    /\ UNCHANGED streamVars

\* handleRequest for POST /v1/chat/completions, up to the first await:
\* validateApiKeyHeader, then parseChatRequest calls readRequestBody, which
\* registers its listeners on the request
ValidateApiKeyHeader ==
    /\ pc = "handleRequest"
    /\ route = "POST /v1/chat/completions"
    /\ LET error == validateApiKeyHeaderError(expectedApiKey, authHeader)
       IN  IF error = NoError
           THEN /\ authorized' = TRUE
                /\ expectedApiKey' = Null
                /\ authHeader' = NoAuthorization
                /\ bodyPromise' = "pending"
                /\ pc' = stepAfter("validateApiKeyHeader")
                /\ UNCHANGED <<response, caughtError, listeners>>
           ELSE /\ Throw(error)
                /\ UNCHANGED <<authorized, expectedApiKey, authHeader,
                               bodyPromise>>
    /\ UNCHANGED <<body, model, accessToken, context, imagesIngested,
                   upstreamCalls, aborted, connClosed, route,
                   requestedModelId, resolvedModelId, bodyTotalBytes,
                   bodyChunksBytes, requestEnded, finalMessage, peer>>
    /\ UNCHANGED functionVars
    /\ UNCHANGED ingestVars
    /\ UNCHANGED streamVars

(***************************************************************************)
(* readRequestBody.  The listeners stay registered after the promise has   *)
(* settled, so data and end events that arrive after a rejection are kept  *)
(* possible here: they run the same listeners.                             *)
(***************************************************************************)
\* the byte cap of the inbound body, scaled down
BODY_LIMIT_BYTES == 2
\* the largest chunk a data event carries
MaxBodyChunkBytes == 2
\* the most bytes a request sends
MaxBodyBytes == 5

\* the cap test off by one: a body of exactly the limit is refused
exceedsBodyLimitAtLimit(total) == total >= BODY_LIMIT_BYTES

exceedsBodyLimit(total) == total > BODY_LIMIT_BYTES

\* the data listener; a rejection reaches the catch block of handleRequest
\* before the next event is handled
OnRequestData ==
    /\ bodyPromise \in {"pending", "rejected"}
    /\ ~requestEnded
    /\ \E byteLength \in 1..MaxBodyChunkBytes :
          /\ bodyTotalBytes + byteLength <= MaxBodyBytes
          /\ bodyTotalBytes' = bodyTotalBytes + byteLength
          /\ IF exceedsBodyLimit(bodyTotalBytes + byteLength)
             THEN /\ UNCHANGED bodyChunksBytes
                  /\ IF bodyPromise = "pending"
                     THEN /\ bodyPromise' = "rejected"
                          /\ Throw(Err("PayloadTooLargeError", Null))
                     ELSE UNCHANGED <<bodyPromise, pc, response, caughtError,
                                      listeners>>
             ELSE /\ bodyChunksBytes' = bodyChunksBytes + byteLength
                  /\ UNCHANGED <<bodyPromise, pc, response, caughtError,
                                 listeners>>
    /\ UNCHANGED <<authorized, body, model, accessToken, context,
                   imagesIngested, upstreamCalls, aborted, connClosed, route,
                   expectedApiKey, authHeader, requestedModelId,
                   resolvedModelId, requestEnded, finalMessage, peer>>
    /\ UNCHANGED functionVars
    /\ UNCHANGED ingestVars
    /\ UNCHANGED streamVars

\* the error listener
OnRequestError ==
    /\ bodyPromise = "pending"
    /\ ~requestEnded
    /\ bodyPromise' = "rejected"
    /\ requestEnded' = TRUE
    /\ Throw(Err("Error", Null))
    /\ UNCHANGED <<authorized, body, model, accessToken, context,
                   imagesIngested, upstreamCalls, aborted, connClosed, route,
                   expectedApiKey, authHeader, requestedModelId,
                   resolvedModelId, bodyTotalBytes, bodyChunksBytes,
                   finalMessage, peer>>
    /\ UNCHANGED functionVars
    /\ UNCHANGED ingestVars
    /\ UNCHANGED streamVars

\* the end listener after the promise was rejected: resolve has no effect
OnLateEnd ==
    /\ bodyPromise = "rejected"
    /\ ~requestEnded
    /\ requestEnded' = TRUE
    /\ UNCHANGED <<pc, authorized, body, model, accessToken, context,
                   imagesIngested, upstreamCalls, aborted, listeners,
                   connClosed, response, caughtError, route, expectedApiKey,
                   authHeader, requestedModelId, resolvedModelId, bodyPromise,
                   bodyTotalBytes, bodyChunksBytes, finalMessage, peer>>
    /\ UNCHANGED functionVars
    /\ UNCHANGED ingestVars
    /\ UNCHANGED streamVars

\* what parseChatRequest throws once the body is read: it is not JSON, is
\* not an object or lacks model / messages
ParseErrors ==
    {Err("InvalidJSONError", Null),
     Err("InvalidRequestError", "invalid_request"),
     Err("InvalidRequestError", "missing_model"),
     Err("InvalidRequestError", "missing_messages"),
     Err("InvalidRequestError", "empty_messages")}

\* the model ids a request names: a model of the registry, one in other
\* case and with white space, an alias and an id nobody knows
RequestedModelIds == {"gpt-5.1", " GPT-5.2", "gpt-4o", "no-such-model"}

\* the end listener while the promise is pending: the promise resolves with
\* the chunks and parseChatRequest parses them
ParseChatRequest ==
    /\ pc = "parseChatRequest"
    /\ bodyPromise = "pending"
    /\ ~requestEnded
    /\ requestEnded' = TRUE
    /\ bodyPromise' = "resolved"
    /\ \/ /\ \E stream \in BOOLEAN, include_usage \in BOOLEAN :
               body' = [parsed |-> TRUE, stream |-> stream,
                        include_usage |-> include_usage]
          /\ \E id \in RequestedModelIds : requestedModelId' = id
          /\ pc' = stepAfter(pc)
          /\ UNCHANGED <<response, caughtError, listeners>>
       \/ /\ \E error \in ParseErrors : Throw(error)
          /\ UNCHANGED <<body, requestedModelId>>
    /\ UNCHANGED <<authorized, model, accessToken, context, imagesIngested,
                   upstreamCalls, aborted, connClosed, route, expectedApiKey,
                   authHeader, resolvedModelId, bodyTotalBytes,
                   bodyChunksBytes, finalMessage, peer>>
    /\ UNCHANGED functionVars
    /\ UNCHANGED ingestVars
    /\ UNCHANGED streamVars

(***************************************************************************)
(* models.ts                                                               *)
(***************************************************************************)
DEFAULT_MODEL_ID == "gpt-5.1"

\* the ids of getAllCodexModels(): the codex models of the registry
CodexModelIds == {"gpt-5.1", "gpt-5.1-codex-mini", "gpt-5.2"}

MODEL_ALIAS_MAP ==
    [id \in {"gpt-4o", "gpt-4o-mini", "gpt-4", "gpt-4-turbo", "gpt-3.5-turbo",
             "o1", "o3", "o4-mini"} |->
        IF id \in {"gpt-4o-mini", "gpt-3.5-turbo", "o4-mini"}
        THEN "gpt-5.1-codex-mini"
        ELSE IF id = "o3" THEN "gpt-5.2"
        ELSE "gpt-5.1"]

\* trim and lower case, on the ids a request names
normalizeModelName(input) ==
    IF input = Null THEN ""
    ELSE IF input = " GPT-5.2" THEN "gpt-5.2"
    ELSE input

resolveRequestedModelId(requested) ==
    LET normalizedRequested == normalizeModelName(requested)
        aliasResolved ==
            IF normalizedRequested \in DOMAIN MODEL_ALIAS_MAP
            THEN MODEL_ALIAS_MAP[normalizedRequested]
            ELSE normalizedRequested
    IN  IF aliasResolved = "" THEN DEFAULT_MODEL_ID
        ELSE IF aliasResolved \in CodexModelIds THEN aliasResolved
        ELSE DEFAULT_MODEL_ID

\* the id of the model resolveCodexModel returns: getModel finds every id
\* of the registry, so the catch block is not entered
resolveCodexModel(requested) == resolveRequestedModelId(requested)

\* requestedModelId is read from the body and resolved; the locals of
\* readRequestBody are gone
ResolveCodexModel ==
    /\ pc = "resolveCodexModel"
    /\ model' = TRUE
    /\ resolvedModelId' = resolveCodexModel(requestedModelId)
    /\ bodyTotalBytes' = 0
    /\ bodyChunksBytes' = 0
    /\ pc' = stepAfter(pc)
    /\ UNCHANGED <<authorized, body, accessToken, context, imagesIngested,
                   upstreamCalls, aborted, listeners, connClosed, response,
                   caughtError, route, expectedApiKey, authHeader,
                   requestedModelId, bodyPromise, requestEnded, finalMessage,
                   peer>>
    /\ UNCHANGED functionVars
    /\ UNCHANGED ingestVars
    /\ UNCHANGED streamVars

TokenErrors == {Err("NotLoggedInError", Null), Err("Error", Null)}

GetAccessToken ==
    /\ pc = "getAccessToken"
    /\ \/ /\ accessToken' = TRUE
          /\ pc' = stepAfter(pc)
          /\ UNCHANGED <<response, caughtError, listeners>>
       \/ /\ \E error \in TokenErrors : Throw(error)
          /\ UNCHANGED accessToken
    /\ UNCHANGED <<authorized, body, model, context, imagesIngested,
                   upstreamCalls, aborted, connClosed>>
    /\ UNCHANGED ingestVars
    /\ UNCHANGED streamVars
    /\ UNCHANGED restVars

(***************************************************************************)
(* openAIRequestToContext: the messages are converted one after another,   *)
(* each behind an await; a user message with image parts awaits            *)
(* toPiImageContent for each image part in turn.                           *)
(***************************************************************************)
PublicV4 == <<93, 184, 216, 34>>

ImageHosts ==
    {DomainHost(<<"example", "com">>), DomainHost(<<"localhost">>),
     DomainHost(<<"a", "localhost">>), DomainHost(<<"localhost", "">>),
     V4Host(<<127, 0, 0, 1>>), V4Host(<<10, 0, 0, 5>>),
     V4Host(<<192, 168, 1, 1>>), V4Host(PublicV4),
     V6Host(<<0, 0, 0, 0, 0, 0, 0, 1>>, FALSE),
     V6Host(MappedGroups(<<127, 0, 0, 1>>), TRUE),
     V6Host(<<9734, 18176, 0, 0, 0, 0, 0, 4369>>, FALSE)}

DataUrls ==
    {[Url("data") EXCEPT !.comma = FALSE],
     [Url("data") EXCEPT !.base64 = TRUE, !.payload = "aGk="],
     [Url("data") EXCEPT !.mime = Mime("text", "html"), !.payload = "x"],
     [Url("data") EXCEPT !.mime = Mime("image", "png"), !.base64 = TRUE],
     [Url("data") EXCEPT !.mime = Mime("image", "png"), !.base64 = TRUE,
                         !.payload = "aGk="],
     [Url("data") EXCEPT !.mime = Mime("image", "svg+xml"), !.payload = "x"],
     [Url("data") EXCEPT !.mime = Mime("image", "svg+xml"),
                         !.payload = "%E0%A4%A"]}

ImageUrls ==
    {NoImage, Url(Null)}
    \cup DataUrls
    \cup {[Url("ftp") EXCEPT !.host = V4Host(PublicV4), !.ext = ".png"]}
    \cup {[Url("http") EXCEPT !.host = h, !.ext = ".png"] : h \in ImageHosts}
    \cup {[Url("https") EXCEPT !.host = DomainHost(<<"example", "com">>)]}

\* what fetch() and reader.read() can reject with: a network error, or the
\* abort the timer raises after IMAGE_FETCH_TIMEOUT_MS
FetchFailures == {Err("TypeError", Null), Err("AbortError", Null)}

\* the response of a fetch: response.ok, the media type of its content-type
\* header, and whether response.body is a stream
FetchResponses ==
    {[ok |-> ok, contentType |-> m, hasBody |-> b] :
        ok \in BOOLEAN, m \in {NoMime, Mime("image", "jpeg"), Mime("text", "html")},
        b \in BOOLEAN}

\* the length of response.arrayBuffer() when response.body is null: such a
\* response has no body
NullBodyLengths == {0}

\* the catch block of fetchRemoteImageAsBase64
wrapFetchError(error) ==
    IF error.name = "ImageNotSupportedError" THEN error
    ELSE ImageNotSupportedError

\* the next image part is taken up while an ingestion is still awaited
mayIngestNextAnyTime(phase) == TRUE

\* userContentToPiContent awaits toPiImageContent before it takes up the
\* next part
mayIngestNext(phase) == phase = "none"

\* the cap test with one byte of slack
exceedsCapWithSlack(total, maxBytes) == total > maxBytes + 1

\* readResponseBodyLimited: totalBytes > maxBytes
exceedsCap(total, maxBytes) == total > maxBytes

\* a message is converted and pushed: one without image parts, or the user
\* message whose image parts have all been ingested
ConvertMessage ==
    /\ pc = "openAIRequestToContext"
    /\ imagePhase = "none"
    /\ messages < MaxMessages
    /\ messages' = messages + 1
    /\ partial' = FALSE
    /\ UNCHANGED <<pc, authorized, body, model, accessToken, context,
                   imagesIngested, imagesStarted, image, imagePhase,
                   fetchesInFlight, mimeType, totalBytes, chunksBytes,
                   readerCancelled, request, upstreamCalls, aborted,
                   listeners, connClosed, response, caughtError>>
    /\ UNCHANGED streamVars
    /\ UNCHANGED restVars

\* userContentToPiContent calls toPiImageContent on the next image part:
\* it throws, returns a data URI's payload, or calls fetch
IngestImage ==
    /\ pc = "openAIRequestToContext"
    /\ mayIngestNext(imagePhase)
    /\ imagesStarted < MaxImages
    /\ messages < MaxMessages
    /\ imagesStarted' = imagesStarted + 1
    /\ partial' = TRUE
    /\ \E urlValue \in ImageUrls :
          LET r == toPiImageContent(urlValue)
          IN  /\ image' = urlValue
              /\ request' = IF r.outcome = "goOn" THEN urlValue ELSE request
              /\ IF r.outcome = "throw"
                 THEN /\ Throw(r.error)
                      /\ UNCHANGED <<imagesIngested, imagePhase,
                                     fetchesInFlight>>
                 ELSE IF r.outcome = "return"
                 THEN /\ imagesIngested' = imagesIngested + 1
                      /\ UNCHANGED <<pc, response, caughtError, listeners,
                                     imagePhase, fetchesInFlight>>
                 ELSE /\ imagePhase' = "fetch"
                      /\ fetchesInFlight' = fetchesInFlight + 1
                      /\ UNCHANGED <<pc, response, caughtError, listeners,
                                     imagesIngested>>
    /\ UNCHANGED <<authorized, body, model, accessToken, context, messages,
                   mimeType, totalBytes, chunksBytes, readerCancelled,
                   upstreamCalls, aborted, connClosed>>
    /\ UNCHANGED streamVars
    /\ UNCHANGED restVars

\* fetchRemoteImageAsBase64 rejects, its error wrapped by its catch block
FailFetch(error) ==
    /\ Throw(wrapFetchError(error))
    /\ fetchesInFlight' = fetchesInFlight - 1
    /\ imagePhase' = "none"
    /\ UNCHANGED imagesIngested

\* fetchRemoteImageAsBase64 returns the payload and it is pushed to parts
ReturnImage ==
    /\ imagesIngested' = imagesIngested + 1
    /\ fetchesInFlight' = fetchesInFlight - 1
    /\ imagePhase' = "none"
    /\ UNCHANGED <<pc, response, caughtError, listeners>>

\* where a response can redirect to: a public host and the loopback address
RedirectLocations ==
    {[Url("http") EXCEPT !.host = h, !.ext = ".png"] :
        h \in {V4Host(PublicV4), V4Host(<<127, 0, 0, 1>>)}}

\* the response is a redirect: fetch, called with redirect "follow", sends
\* the request to the location itself; a redirect too many makes it reject
FetchRedirects ==
    /\ pc = "openAIRequestToContext"
    /\ imagePhase = "fetch"
    /\ \E location \in RedirectLocations :
          /\ request # location
          /\ request' = location
    /\ UNCHANGED <<pc, authorized, body, model, accessToken, context,
                   imagesIngested, imagesStarted, image, imagePhase, messages,
                   partial, fetchesInFlight, mimeType, totalBytes,
                   chunksBytes, readerCancelled, upstreamCalls, aborted,
                   listeners, connClosed, response, caughtError>>
    /\ UNCHANGED streamVars
    /\ UNCHANGED restVars

\* the fetch settles
FetchSettles ==
    /\ pc = "openAIRequestToContext"
    /\ imagePhase = "fetch"
    /\ request' = NoImage
    /\ \/ /\ \E failure \in FetchFailures : FailFetch(failure)
          /\ UNCHANGED <<mimeType, totalBytes, chunksBytes>>
       \/ \E resp \in FetchResponses :
             LET mime == IF isImageMimeType(resp.contentType)
                         THEN resp.contentType
                         ELSE inferMimeTypeFromUrl(image)
             IN  IF ~resp.ok \/ mime = NoMime
                 THEN /\ FailFetch(ImageNotSupportedError)
                      /\ UNCHANGED <<mimeType, totalBytes, chunksBytes>>
                 ELSE /\ mimeType' = mime
                      /\ totalBytes' = 0
                      /\ chunksBytes' = 0
                      /\ imagePhase' = IF resp.hasBody THEN "read"
                                       ELSE "arrayBuffer"
                      /\ UNCHANGED <<pc, response, caughtError, listeners,
                                     fetchesInFlight, imagesIngested>>
    /\ UNCHANGED <<authorized, body, model, accessToken, context,
                   imagesStarted, image, messages, partial,
                   readerCancelled, upstreamCalls, aborted, connClosed>>
    /\ UNCHANGED streamVars
    /\ UNCHANGED restVars

\* readResponseBodyLimited: reader.read() delivers a chunk of bytes, or
\* rejects.  A read that delivers no value changes nothing.
ReadChunk ==
    /\ pc = "openAIRequestToContext"
    /\ imagePhase = "read"
    /\ \/ /\ \E failure \in FetchFailures : FailFetch(failure)
          /\ UNCHANGED <<totalBytes, chunksBytes, readerCancelled>>
       \/ \E byteLength \in 1..MaxChunkBytes :
             /\ totalBytes' = totalBytes + byteLength
             /\ IF exceedsCap(totalBytes', MAX_REMOTE_IMAGE_BYTES)
                THEN /\ readerCancelled' = TRUE
                     /\ FailFetch(ImageNotSupportedError)
                     /\ UNCHANGED chunksBytes
                ELSE /\ chunksBytes' = chunksBytes + byteLength
                     /\ UNCHANGED <<pc, response, caughtError, listeners,
                                    fetchesInFlight, imagePhase,
                                    readerCancelled, imagesIngested>>
    /\ UNCHANGED <<authorized, body, model, accessToken, context,
                   imagesStarted, image, messages, partial,
                   mimeType, request, upstreamCalls, aborted, connClosed>>
    /\ UNCHANGED streamVars
    /\ UNCHANGED restVars

\* readResponseBodyLimited: the body is exhausted and the chunks are
\* returned; an empty body fails
ReadDone ==
    /\ pc = "openAIRequestToContext"
    /\ imagePhase = "read"
    /\ IF chunksBytes = 0 THEN FailFetch(ImageNotSupportedError)
       ELSE ReturnImage
    /\ UNCHANGED <<authorized, body, model, accessToken, context,
                   imagesStarted, image, messages, partial, mimeType,
                   totalBytes, chunksBytes, readerCancelled, request,
                   upstreamCalls, aborted, connClosed>>
    /\ UNCHANGED streamVars
    /\ UNCHANGED restVars

\* readResponseBodyLimited for a response without a body stream:
\* response.arrayBuffer() resolves, or rejects
ReadWholeBody ==
    /\ pc = "openAIRequestToContext"
    /\ imagePhase = "arrayBuffer"
    /\ \/ /\ \E failure \in FetchFailures : FailFetch(failure)
          /\ UNCHANGED <<totalBytes, chunksBytes>>
       \/ \E byteLength \in NullBodyLengths :
             /\ totalBytes' = byteLength
             /\ chunksBytes' = byteLength
             /\ IF byteLength > MAX_REMOTE_IMAGE_BYTES \/ byteLength = 0
                THEN FailFetch(ImageNotSupportedError)
                ELSE ReturnImage
    /\ UNCHANGED <<authorized, body, model, accessToken, context,
                   imagesStarted, image, messages, partial, mimeType,
                   readerCancelled, request, upstreamCalls, aborted,
                   connClosed>>
    /\ UNCHANGED streamVars
    /\ UNCHANGED restVars

\* no message is left: openAIRequestToContext returns the context, and its
\* locals are gone
ContextBuilt ==
    /\ pc = "openAIRequestToContext"
    /\ imagePhase = "none"
    /\ ~partial
    /\ context' = TRUE
    /\ imagesIngested' = 0
    /\ imagesStarted' = 0
    /\ image' = NoImage
    /\ messages' = 0
    /\ mimeType' = NoMime
    /\ totalBytes' = 0
    /\ chunksBytes' = 0
    /\ pc' = stepAfter(pc)
    /\ UNCHANGED <<authorized, body, model, accessToken, imagePhase, partial,
                   fetchesInFlight, readerCancelled, request, upstreamCalls,
                   aborted, listeners, connClosed, response, caughtError>>
    /\ UNCHANGED streamVars
    /\ UNCHANGED restVars


(***************************************************************************)
(* The upstream call and writeSSEStream.                                   *)
(***************************************************************************)
\* abortUpstream with its test inverted
abortUpstreamInverted(signalAborted) ==
    IF signalAborted THEN TRUE ELSE signalAborted

\* abortUpstream, and the same two lines in writeSSEStream's close listener
abortUpstream(signalAborted) ==
    IF ~signalAborted THEN TRUE ELSE signalAborted

\* handleChatCompletions registers abortUpstream and calls streamSimple; for
\* body.stream it enters writeSSEStream, which runs up to its first await:
\* status and headers are flushed, the StreamState is created and the close
\* listener is registered
\* streamSimple is called with the model; what follows does not read the
\* model again, and requestedModelId only to label what it sends
CallUpstream ==
    /\ pc = "streamSimple"
    /\ upstreamCalls' = upstreamCalls + 1
    /\ IF body.stream
       THEN /\ response' = [response EXCEPT !.statusCode = 200,
                                            !.contentType = "text/event-stream",
                                            !.headersSent = TRUE]
            /\ state' = createStreamState
            /\ closed' = FALSE
            /\ clientDisconnected' = FALSE
            /\ iterationErrorMessage' = Null
            /\ listeners' = listeners \cup {"abortUpstream", "writeSSEStream"}
            /\ pc' = "writeSSEStream"
       ELSE /\ listeners' = listeners \cup {"abortUpstream"}
            /\ pc' = "getFinalAssistantMessage"
            /\ UNCHANGED <<response, state, closed, clientDisconnected,
                           iterationErrorMessage>>
    /\ requestedModelId' = Null
    /\ resolvedModelId' = Null
    /\ UNCHANGED <<authorized, body, model, accessToken, context,
                   imagesIngested, route, expectedApiKey, authHeader,
                   bodyPromise, bodyTotalBytes, bodyChunksBytes, requestEnded,
                   finalMessage, peer>>
    /\ UNCHANGED functionVars
    /\ UNCHANGED ingestVars
    /\ UNCHANGED <<aborted, connClosed, pulled, event, arrival, outcome,
                   written, caughtError>>

\* the response emits close: the connection was terminated, or the response
\* is complete.  Every registered listener runs.
ClientClose ==
    /\ ~connClosed
    /\ connClosed' = TRUE
    /\ clientDisconnected' =
          IF "writeSSEStream" \in listeners THEN TRUE ELSE clientDisconnected
    /\ aborted' = IF listeners # {} THEN abortUpstream(aborted) ELSE aborted
    /\ UNCHANGED requestVars
    /\ UNCHANGED <<pc, upstreamCalls, listeners, state, closed,
                   iterationErrorMessage, pulled, event, arrival, outcome,
                   response, written, caughtError>>

\* the catch block assigning content_filter without the ?? test
catchFinishReasonAlways(streamFinishReason) == "content_filter"

\* the catch block's assignment to state.streamFinishReason
catchFinishReason(streamFinishReason) ==
    IF streamFinishReason = Null THEN "content_filter" ELSE streamFinishReason

\* the frames the catch block writes
catchFrames(disconnected, ended, message, st) ==
    IF ~disconnected /\ ~ended
    THEN eventToSSEChunks([Ev("error") EXCEPT !.message = message], st).chunks
    ELSE <<>>

\* the finally block writing [DONE] before the usage chunk
finallyFramesSwapped(includeUsage, st) ==
    <<DoneLine>> \o (IF includeUsage THEN formatUsageSSEChunk(st) ELSE <<>>)

\* the finally block writing the usage chunk whether or not it was asked for
finallyFramesAlwaysUsage(includeUsage, st) ==
    formatUsageSSEChunk(st) \o <<DoneLine>>

\* the frames the finally block writes before response.end()
finallyFrames(includeUsage, st) ==
    (IF includeUsage THEN formatUsageSSEChunk(st) ELSE <<>>) \o <<DoneLine>>

\* a finally block that writes nothing and leaves the response open
finallyClosesNever(isClosed, ended) == FALSE

\* the finally block runs its body
finallyCloses(isClosed, ended) == ~isClosed /\ ~ended

\* the finally block of writeSSEStream, then its return statement
LeaveLoop(st, frames, errorMessage) ==
    LET closes == finallyCloses(closed, writableEnded(response))
    IN  /\ written' = IF closes
                      THEN written \o frames \o finallyFrames(body.include_usage, st)
                      ELSE written \o frames
        /\ response' = IF closes THEN [response EXCEPT !.endCount = @ + 1]
                       ELSE response
        /\ closed' = (closed \/ closes)
        /\ state' = st
        /\ iterationErrorMessage' = errorMessage
        /\ outcome' = [returned |-> TRUE,
                       emittedAnyOutput |-> st.emittedAnyOutput,
                       accumulatedText |-> st.accumulatedText,
                       streamFinishReason |-> st.streamFinishReason,
                       streamMessage |-> st.streamMessage,
                       streamUsage |-> st.streamUsage,
                       iterationErrorMessage |-> errorMessage,
                       clientDisconnected |-> clientDisconnected]
        /\ pc' = "afterStream"

\* the loop body writing an event's chunks ahead of the frames written
writeChunksAhead(sent, chunks) == chunks \o sent

\* the loop body's response.write of every chunk of one event, in order
writeChunks(sent, chunks) == sent \o chunks

\* a loop that goes on translating after the client has gone
breaksLoopNever(disconnected) == FALSE

\* the test at the head of the loop body
breaksLoop(disconnected) == disconnected

\* the upstream yields an event: the loop body runs, or breaks out after a
\* disconnect
PullEvent ==
    /\ pc = "writeSSEStream"
    /\ pulled < MaxEvents
    /\ pulled' = pulled + 1
    /\ \E e \in Events :
          /\ event' = e
          /\ arrival' = IF /\ arrival # NoNumber
                           /\ arrival < Len(HelloScenario)
                           /\ e = HelloScenario[arrival + 1]
                        THEN arrival + 1
                        ELSE NoNumber
          /\ IF breaksLoop(clientDisconnected)
             THEN LeaveLoop(state, <<>>, iterationErrorMessage)
             ELSE LET r == eventToSSEChunks(e, state)
                  IN  /\ state' = r.state
                      /\ written' = writeChunks(written, r.chunks)
                      /\ UNCHANGED <<pc, closed, iterationErrorMessage,
                                     outcome, response>>
    /\ UNCHANGED requestVars
    /\ UNCHANGED <<upstreamCalls, aborted, listeners, connClosed,
                   clientDisconnected, caughtError>>

\* the upstream sequence is exhausted
UpstreamEnds ==
    /\ pc = "writeSSEStream"
    /\ LeaveLoop(state, <<>>, iterationErrorMessage)
    /\ UNCHANGED requestVars
    /\ UNCHANGED <<upstreamCalls, aborted, listeners, connClosed,
                   clientDisconnected, pulled, event, arrival, caughtError>>

\* pulling the next event raises: the catch block, then the finally block
UpstreamRaises ==
    /\ pc = "writeSSEStream"
    /\ \E message \in IterationFailures :
          LET st == [state EXCEPT
                       !.streamFinishReason = catchFinishReason(@)]
          IN  LeaveLoop(st,
                        catchFrames(clientDisconnected, writableEnded(response),
                                    message, st),
                        message)
    /\ UNCHANGED requestVars
    /\ UNCHANGED <<upstreamCalls, aborted, listeners, connClosed,
                   clientDisconnected, pulled, event, arrival, caughtError>>

\* handleChatCompletions after writeSSEStream returned: its finally block
\* removes abortUpstream from the close listeners
FinishStream ==
    /\ pc = "afterStream"
    /\ listeners' = listeners \ {"abortUpstream"}
    /\ pc' = "finished"
    /\ UNCHANGED requestVars
    /\ UNCHANGED streamVars
    /\ UNCHANGED <<upstreamCalls, aborted, connClosed, response, caughtError>>

(***************************************************************************)
(* The non-streaming path: the terminal message is awaited, then either a  *)
(* completion is sent or the request fails.                                *)
(***************************************************************************)
\* stop reasons a terminal message can carry
StopReasons == {"stop", "error", "aborted", "content_filter"}

\* the terminal messages getFinalAssistantMessage resolves to
FinalMessages ==
    {[Message(usage) EXCEPT !.stopReason = stopReason,
                            !.contentToolCalls = calls] :
        usage \in {NoUsageField, SomeUsage}, stopReason \in StopReasons,
        calls \in {0, 1}}

\* getFinalAssistantMessage settles: it resolves to the terminal message or
\* to nothing, or the upstream's result() rejects
GetFinalAssistantMessage ==
    /\ pc = "getFinalAssistantMessage"
    /\ \/ /\ \E message \in FinalMessages \cup {NullMessage} :
                finalMessage' = message
          /\ pc' = "assistantMessageToResponse"
          /\ UNCHANGED <<response, caughtError, listeners>>
       \/ /\ \E rateLimit \in BOOLEAN :
                Throw([Err("Error", Null) EXCEPT !.rateLimit = rateLimit])
          /\ UNCHANGED finalMessage
    /\ UNCHANGED <<authorized, body, model, accessToken, context,
                   imagesIngested, upstreamCalls, aborted, connClosed, peer>>
    /\ UNCHANGED inboundVars
    /\ UNCHANGED functionVars
    /\ UNCHANGED ingestVars
    /\ UNCHANGED streamVars

getAssistantStopReason(message) ==
    IF ~message.present THEN ""
    ELSE LET stopReason == coalesce(message.stopReason,
                                    coalesce(message.stop_reason,
                                             message.reason))
         IN  IF stopReason = Null THEN "" ELSE stopReason

noFinalMessage(message) == ~message.present

\* handleChatCompletions after getFinalAssistantMessage
AssembleResponse ==
    /\ pc = "assistantMessageToResponse"
    /\ IF noFinalMessage(finalMessage)
       THEN Throw(Err("Error", Null))
       ELSE IF getAssistantStopReason(finalMessage) \in {"error", "aborted"}
       THEN \E rateLimit \in BOOLEAN :
               Throw([Err("UpstreamModelError", "upstream_model_error")
                         EXCEPT !.rateLimit = rateLimit])
       ELSE \* the completion is sent; what follows (tracing, logging) returns
            \* or throws into the catch block of handleRequest
            /\ \E error \in {NoError, Err("Error", Null)} :
                  LET sent ==
                        [sendJson(response, 200, "chat.completion") EXCEPT
                           !.completion =
                              assistantMessageToResponse(finalMessage)]
                  IN  /\ caughtError' = error
                      /\ response' = IF error = NoError THEN sent
                                     ELSE handleRequestCatch(sent, error)
            /\ listeners' = listeners \ {"abortUpstream"}
            /\ pc' = "finished"
    /\ UNCHANGED requestVars
    /\ UNCHANGED streamVars
    /\ UNCHANGED <<upstreamCalls, aborted, connClosed>>

Next ==
    \/ HandleOptions
    \/ HandleModels
    \/ RouteNotFound
    \/ ValidateApiKeyHeader
    \/ OnRequestData
    \/ OnRequestError
    \/ OnLateEnd
    \/ ParseChatRequest
    \/ ResolveCodexModel
    \/ GetAccessToken
    \/ ConvertMessage
    \/ IngestImage
    \/ FetchRedirects
    \/ FetchSettles
    \/ ReadChunk
    \/ ReadDone
    \/ ReadWholeBody
    \/ ContextBuilt
    \/ CallUpstream
    \/ ClientClose
    \/ PullEvent
    \/ UpstreamEnds
    \/ UpstreamRaises
    \/ FinishStream
    \/ GetFinalAssistantMessage
    \/ AssembleResponse

Spec == Init /\ [][Next]_vars

(***************************************************************************)
(* eventToSSEChunks applied once to a done event: the inputs are the       *)
(* event's reason and message and the finish reason the StreamState holds  *)
(* when the event arrives.                                                 *)
(***************************************************************************)
\* values of record.reason ?? record.stopReason; Null is a missing reason
StopReasonInputs ==
    {"tool_calls", "tool_call", "toolUse", "tool_use", "max_tokens", "length",
     "content_filter", "error", "aborted", "stop", "end_turn", "TOOL_CALLS",
     "", Null}

DoneMessages ==
    {NullMessage, [present |-> TRUE, usage |-> SomeUsage],
     [present |-> TRUE, usage |-> NoUsageField]}

FinishReasons == {Null, "stop", "length", "tool_calls", "content_filter"}

StopReasonInit ==
    /\ pc = "eventToSSEChunks"
    /\ authorized = TRUE
    /\ body = [parsed |-> TRUE, stream |-> TRUE, include_usage |-> FALSE]
    /\ model = TRUE
    /\ accessToken = TRUE
    /\ context = TRUE
    /\ imagesIngested = 0
    /\ imagesStarted = 0
    /\ image = NoImage
    /\ imagePhase = "none"
    /\ messages = 0
    /\ partial = FALSE
    /\ fetchesInFlight = 0
    /\ mimeType = NoMime
    /\ totalBytes = 0
    /\ chunksBytes = 0
    /\ readerCancelled = FALSE
    /\ request = NoImage
    /\ upstreamCalls = 1
    /\ aborted = FALSE
    /\ listeners = {"abortUpstream", "writeSSEStream"}
    /\ connClosed = FALSE
    /\ \E streamFinishReason \in FinishReasons :
          state = [createStreamState EXCEPT
                     !.streamFinishReason = streamFinishReason]
    /\ closed = FALSE
    /\ clientDisconnected = FALSE
    /\ iterationErrorMessage = Null
    /\ pulled = 1
    /\ \E reason \in StopReasonInputs, message \in DoneMessages :
          event = [Ev("done") EXCEPT !.reason = reason, !.doneMessage = message]
    /\ arrival = NoNumber
    /\ outcome = NoOutcome
    /\ response = [NewResponse EXCEPT !.contentType = "text/event-stream",
                                      !.headersSent = TRUE]
    /\ written = <<>>
    /\ caughtError = NoError
    /\ route = "POST /v1/chat/completions"
    /\ expectedApiKey = Null
    /\ authHeader = NoAuthorization
    /\ requestedModelId = Null
    /\ resolvedModelId = Null
    /\ bodyPromise = "resolved"
    /\ bodyTotalBytes = 0
    /\ bodyChunksBytes = 0
    /\ requestEnded = TRUE
    /\ finalMessage = NotAwaited
    /\ peer = NoPeer
    /\ arg = [fn |-> Null]
    /\ result = <<>>

TranslateDone ==
    /\ pc = "eventToSSEChunks"
    /\ LET r == eventToSSEChunks(event, state)
       IN  /\ state' = r.state
           /\ written' = writeChunks(written, r.chunks)
    /\ pc' = "translated"
    /\ UNCHANGED requestVars
    /\ UNCHANGED <<upstreamCalls, aborted, listeners, connClosed, closed,
                   clientDisconnected, iterationErrorMessage, pulled, event,
                   arrival, outcome, response, caughtError>>

StopReasonSpec == StopReasonInit /\ [][TranslateDone]_vars

(***************************************************************************)
(* Two streaming requests served at the same time.  The first is the       *)
(* request of the variables above, with any upstream events; the second is *)
(* the record peer: the events its upstream yields (script), how many of   *)
(* them its loop has pulled, the StreamState its writeSSEStream created    *)
(* and the frames written to its response.  Each pull is one turn of the   *)
(* event loop, so the two loops interleave pull by pull.                   *)
(***************************************************************************)
PeerScripts ==
    {HelloScenario,
     <<[Ev("toolcall_start") EXCEPT !.contentIndex = 0],
       [Ev("toolcall_delta") EXCEPT !.delta = "x"],
       [Ev("done") EXCEPT !.reason = "toolUse",
                          !.doneMessage = [present |-> TRUE,
                                           usage |-> SomeUsage]]>>}

\* a StreamState kept at module level, so that the stream served last is
\* given the state of the other
streamStateShared(own, other) == other

\* the StreamState a loop hands to eventToSSEChunks: the one its own
\* writeSSEStream created
streamStateOf(own, other) == own

PairInit ==
    /\ pc = "writeSSEStream"
    /\ authorized = TRUE
    /\ body = [parsed |-> TRUE, stream |-> TRUE, include_usage |-> FALSE]
    /\ model = TRUE
    /\ accessToken = TRUE
    /\ context = TRUE
    /\ imagesIngested = 0
    /\ imagesStarted = 0
    /\ image = NoImage
    /\ imagePhase = "none"
    /\ messages = 0
    /\ partial = FALSE
    /\ fetchesInFlight = 0
    /\ mimeType = NoMime
    /\ totalBytes = 0
    /\ chunksBytes = 0
    /\ readerCancelled = FALSE
    /\ request = NoImage
    /\ upstreamCalls = 1
    /\ aborted = FALSE
    /\ listeners = {"abortUpstream", "writeSSEStream"}
    /\ connClosed = FALSE
    /\ state = createStreamState
    /\ closed = FALSE
    /\ clientDisconnected = FALSE
    /\ iterationErrorMessage = Null
    /\ pulled = 0
    /\ event = NoEvent
    /\ arrival = 0
    /\ outcome = NoOutcome
    /\ response = [NewResponse EXCEPT !.contentType = "text/event-stream",
                                      !.headersSent = TRUE]
    /\ written = <<>>
    /\ caughtError = NoError
    /\ route = "POST /v1/chat/completions"
    /\ expectedApiKey = Null
    /\ authHeader = NoAuthorization
    /\ requestedModelId = Null
    /\ resolvedModelId = Null
    /\ bodyPromise = "resolved"
    /\ bodyTotalBytes = 0
    /\ bodyChunksBytes = 0
    /\ requestEnded = TRUE
    /\ finalMessage = NotAwaited
    /\ \E script \in PeerScripts :
          peer = [present |-> TRUE, script |-> script, pulled |-> 0,
                  state |-> createStreamState, written |-> <<>>]
    /\ arg = [fn |-> Null]
    /\ result = <<>>

\* the second request's upstream yields its next event: the loop body runs
PeerPull ==
    /\ peer.present
    /\ peer.pulled < Len(peer.script)
    /\ LET r == eventToSSEChunks(peer.script[peer.pulled + 1],
                                 streamStateOf(peer.state, state))
       IN  peer' = [peer EXCEPT !.pulled = @ + 1, !.state = r.state,
                                !.written = writeChunks(@, r.chunks)]
    /\ UNCHANGED <<pc, authorized, body, model, accessToken, context,
                   imagesIngested, upstreamCalls, aborted, listeners,
                   connClosed, response, caughtError, finalMessage>>
    /\ UNCHANGED inboundVars
    /\ UNCHANGED functionVars
    /\ UNCHANGED ingestVars
    /\ UNCHANGED streamVars

PairSpec == PairInit /\ [][PullEvent \/ PeerPull]_vars


(***************************************************************************)
(* One streaming request from the entry of the loop of writeSSEStream to   *)
(* the return of handleChatCompletions, with an upstream that may go on    *)
(* yielding events for ever.  The events of LiveEvents are counted by      *)
(* pulled, as in PullEvent; the events eventToSSEChunks makes nothing of   *)
(* change no StreamState and write no frame, so the upstream can yield any *)
(* number of them.  Every pull the loop waits for settles (it yields, ends *)
(* or raises), and handleChatCompletions goes on once writeSSEStream has   *)
(* returned; whether the client closes the connection is left open.        *)
(***************************************************************************)
LiveEvents ==
    {HelloScenario[i] : i \in DOMAIN HelloScenario}
    \cup {[Ev("error") EXCEPT !.message = "boom"]}

LiveInit ==
    /\ pc = "writeSSEStream"
    /\ authorized = TRUE
    /\ \E include_usage \in BOOLEAN :
          body = [parsed |-> TRUE, stream |-> TRUE,
                  include_usage |-> include_usage]
    /\ model = TRUE
    /\ accessToken = TRUE
    /\ context = TRUE
    /\ imagesIngested = 0
    /\ imagesStarted = 0
    /\ image = NoImage
    /\ imagePhase = "none"
    /\ messages = 0
    /\ partial = FALSE
    /\ fetchesInFlight = 0
    /\ mimeType = NoMime
    /\ totalBytes = 0
    /\ chunksBytes = 0
    /\ readerCancelled = FALSE
    /\ request = NoImage
    /\ upstreamCalls = 1
    /\ aborted = FALSE
    /\ listeners = {"abortUpstream", "writeSSEStream"}
    /\ connClosed = FALSE
    /\ state = createStreamState
    /\ closed = FALSE
    /\ clientDisconnected = FALSE
    /\ iterationErrorMessage = Null
    /\ pulled = 0
    /\ event = NoEvent
    /\ arrival = 0
    /\ outcome = NoOutcome
    /\ response = [NewResponse EXCEPT !.contentType = "text/event-stream",
                                      !.headersSent = TRUE]
    /\ written = <<>>
    /\ caughtError = NoError
    /\ route = "POST /v1/chat/completions"
    /\ expectedApiKey = Null
    /\ authHeader = NoAuthorization
    /\ requestedModelId = Null
    /\ resolvedModelId = Null
    /\ bodyPromise = "resolved"
    /\ bodyTotalBytes = 0
    /\ bodyChunksBytes = 0
    /\ requestEnded = TRUE
    /\ finalMessage = NotAwaited
    /\ peer = NoPeer
    /\ arg = [fn |-> Null]
    /\ result = <<>>

\* the upstream yields an event eventToSSEChunks makes nothing of: the loop
\* body runs, or breaks out after a disconnect
PullIgnoredEvent ==
    /\ pc = "writeSSEStream"
    /\ \E e \in OtherEvents :
          /\ event' = e
          /\ arrival' = NoNumber
          /\ IF breaksLoop(clientDisconnected)
             THEN LeaveLoop(state, <<>>, iterationErrorMessage)
             ELSE LET r == eventToSSEChunks(e, state)
                  IN  /\ state' = r.state
                      /\ written' = writeChunks(written, r.chunks)
                      /\ UNCHANGED <<pc, closed, iterationErrorMessage,
                                     outcome, response>>
    /\ UNCHANGED requestVars
    /\ UNCHANGED <<upstreamCalls, aborted, listeners, connClosed,
                   clientDisconnected, pulled, caughtError>>

\* a pull of the loop of writeSSEStream settles
PullSettles ==
    \/ PullEvent /\ event' \in LiveEvents
    \/ PullIgnoredEvent
    \/ UpstreamEnds
    \/ UpstreamRaises

LiveSpec ==
    /\ LiveInit
    /\ [][PullSettles \/ ClientClose \/ FinishStream]_vars
    /\ WF_vars(PullSettles)
    /\ WF_vars(FinishStream)


(***************************************************************************)
(* convert.ts: the base64 branch of parseDataUrl.  A payload is the        *)
(* sequence of its characters, a character a number: 0..63 is the          *)
(* character of the standard alphabet with that value, 162 and 163 are     *)
(* "-" and "_" (the URL-safe characters of values 62 and 63), 64 is "=",   *)
(* 65 a white space character and 66 any other character.  A Buffer is     *)
(* its length in bytes and the number its bytes spell, big-endian.         *)
(***************************************************************************)
\* Buffer.from(chars, "base64"): the decoder skips the characters that are
\* not of the alphabet and drops the bits that do not fill a byte
base64Decode(chars) ==
    LET RECURSIVE sextets(_)
        sextets(cs) ==
            IF cs = <<>> THEN <<>>
            ELSE LET c == Head(cs)
                 IN  IF c <= 63 THEN <<c>> \o sextets(Tail(cs))
                     ELSE IF c \in {162, 163}
                     THEN <<c - 100>> \o sextets(Tail(cs))
                     ELSE sextets(Tail(cs))
        RECURSIVE spell(_)
        spell(digits) ==
            IF digits = <<>> THEN 0
            ELSE 64 * spell(SubSeq(digits, 1, Len(digits) - 1))
                 + digits[Len(digits)]
        length == (6 * Len(sextets(chars))) \div 8
    IN  [length |-> length,
         bytes |-> spell(sextets(chars))
                   \div (2 ^ (6 * Len(sextets(chars)) - 8 * length))]

\* buffer.toString("base64")
base64Encode(buffer) ==
    LET count == (8 * buffer.length + 5) \div 6
        padded == buffer.bytes * (2 ^ (6 * count - 8 * buffer.length))
    IN  [i \in 1..count |-> (padded \div (64 ^ (count - i))) % 64]
        \o [i \in 1..((4 - (count % 4)) % 4) |-> 64]

\* parseDataUrl for a data URI whose metadata holds an image type and base64
parseDataUrlBase64(dataUrl) ==
    LET RECURSIVE trim(_)
        trim(chars) ==
            IF chars = <<>> THEN chars
            ELSE IF Head(chars) = 65 THEN trim(Tail(chars))
            ELSE IF chars[Len(chars)] = 65
            THEN trim(SubSeq(chars, 1, Len(chars) - 1))
            ELSE chars
        normalized == trim(dataUrl.payload)
    IN  IF normalized = <<>>
        THEN [outcome |-> "throw", mimeType |-> dataUrl.mime, data |-> <<>>]
        ELSE [outcome |-> "return", mimeType |-> dataUrl.mime,
              data |-> base64Encode(base64Decode(normalized))]

\* payloads of base64 data URIs: aGkh, aGk=, aGk, aGl=, -_8=, aG k=, " aGk= ",
\* =, !!, the empty payload and white space
Base64Payloads ==
    {<<26, 6, 36, 33>>, <<26, 6, 36, 64>>, <<26, 6, 36>>, <<26, 6, 37, 64>>,
     <<162, 163, 60, 64>>, <<26, 6, 65, 36, 64>>, <<65, 26, 6, 36, 64, 65>>,
     <<64>>, <<66, 66>>, <<>>, <<65>>}

(***************************************************************************)
(* convert.ts: parseToolArguments.  An arguments text is what it holds     *)
(* between its leading and trailing white space (core) and whether it has  *)
(* such white space (padded).                                              *)
(***************************************************************************)
\* the texts JSON.parse accepts, among the cores below
ValidJson == {"{\"a\":1}", "{}", "1", "null"}

ToolArgumentTexts ==
    [core : ValidJson \cup {"", "{", "x y"}, padded : BOOLEAN]

\* parseToolArguments letting the SyntaxError of JSON.parse escape
parseToolArgumentsStrict(argumentsText) ==
    IF argumentsText.core = ""
    THEN [outcome |-> "return", kind |-> "object", json |-> "{}",
          raw |-> [core |-> "", padded |-> FALSE]]
    ELSE IF argumentsText.core \in ValidJson
    THEN [outcome |-> "return", kind |-> "json", json |-> argumentsText.core,
          raw |-> [core |-> "", padded |-> FALSE]]
    ELSE [outcome |-> "throw", kind |-> "SyntaxError", json |-> "",
          raw |-> [core |-> "", padded |-> FALSE]]

\* kind json: JSON.parse's value of the text json; kind object: the empty
\* object; kind raw: the object {raw: <text raw>}
parseToolArguments(argumentsText) ==
    IF argumentsText.core = ""
    THEN [outcome |-> "return", kind |-> "object", json |-> "{}",
          raw |-> [core |-> "", padded |-> FALSE]]
    ELSE IF argumentsText.core \in ValidJson
    THEN [outcome |-> "return", kind |-> "json", json |-> argumentsText.core,
          raw |-> [core |-> "", padded |-> FALSE]]
    ELSE [outcome |-> "return", kind |-> "raw", json |-> "",
          raw |-> argumentsText]

(***************************************************************************)
(* Functions applied on their own.  arg holds the function's name and its  *)
(* argument.  A terminal message is given both to the non-streaming        *)
(* assembler (AssembleResponse) and, as the message of a done event, to    *)
(* the stream adapter (TranslateTerminal).                                 *)
(***************************************************************************)
TerminalMessages ==
    {[Message(usage) EXCEPT !.stopReason = stopReason,
                            !.reason = IF stopReason = Null THEN "length"
                                       ELSE Null,
                            !.toolCalls = calls[1], !.tool_calls = calls[2],
                            !.contentToolCalls = calls[3]] :
        usage \in {NoUsageField}
                  \cup {[Usage EXCEPT !.input = input,
                                      !.prompt_tokens = prompt_tokens,
                                      !.output = output,
                                      !.cacheRead = cacheRead,
                                      !.cached_tokens = cached_tokens,
                                      !.totalTokens = totalTokens] :
                           input \in {NoNumber, 3},
                           prompt_tokens \in {NoNumber, 4},
                           output \in {NoNumber, NotFinite, 2},
                           cacheRead \in {NoNumber, 1},
                           cached_tokens \in {NoNumber, 5},
                           totalTokens \in {NoNumber, 0, 9}},
        stopReason \in {Null, "stop", "toolUse", "error"},
        calls \in {<<NoArray, NoArray, 0>>, <<NoArray, NoArray, 1>>,
                   <<Array(<<"object">>), NoArray, 0>>,
                   <<Array(<<"junk">>), NoArray, 1>>,
                   <<Array(<<>>), Array(<<"object", "object">>), 0>>}}
    \cup {[Message(NoUsageField) EXCEPT !.stop_reason = stop_reason,
                                        !.reason = reason] :
            stop_reason \in {Null, "stop", "error", "content_filter"},
            reason \in {Null, "error", "aborted"}}

FunctionInit ==
    /\ authorized = TRUE
    /\ body = [parsed |-> TRUE, stream |-> FALSE, include_usage |-> FALSE]
    /\ model = TRUE
    /\ accessToken = TRUE
    /\ context = TRUE
    /\ imagesIngested = 0
    /\ imagesStarted = 0
    /\ image = NoImage
    /\ imagePhase = "none"
    /\ messages = 0
    /\ partial = FALSE
    /\ fetchesInFlight = 0
    /\ mimeType = NoMime
    /\ totalBytes = 0
    /\ chunksBytes = 0
    /\ readerCancelled = FALSE
    /\ request = NoImage
    /\ upstreamCalls = 1
    /\ aborted = FALSE
    /\ listeners = {"abortUpstream"}
    /\ connClosed = FALSE
    /\ state = createStreamState
    /\ closed = FALSE
    /\ clientDisconnected = FALSE
    /\ iterationErrorMessage = Null
    /\ pulled = 0
    /\ arrival = NoNumber
    /\ outcome = NoOutcome
    /\ response = NewResponse
    /\ written = <<>>
    /\ caughtError = NoError
    /\ route = "POST /v1/chat/completions"
    /\ expectedApiKey = Null
    /\ authHeader = NoAuthorization
    /\ requestedModelId = Null
    /\ resolvedModelId = Null
    /\ bodyPromise = "resolved"
    /\ bodyTotalBytes = 0
    /\ bodyChunksBytes = 0
    /\ requestEnded = TRUE
    /\ peer = NoPeer
    /\ result = <<>>
    /\ \/ \E message \in TerminalMessages :
             /\ arg = [fn |-> "assistantMessageToResponse", value |-> message]
             /\ pc = "assistantMessageToResponse"
             /\ finalMessage = message
             /\ event = [Ev("done") EXCEPT !.doneMessage = message]
       \/ /\ \/ \E payload \in Base64Payloads :
                   arg = [fn |-> "parseDataUrl",
                          value |-> [mime |-> Mime("image", "png"),
                                     payload |-> payload]]
             \/ \E argumentsText \in ToolArgumentTexts :
                   arg = [fn |-> "parseToolArguments", value |-> argumentsText]
          /\ pc = "openAIRequestToContext"
          /\ finalMessage = NotAwaited
          /\ event = NoEvent

\* eventToSSEChunks applied to the done event that carries the message
TranslateTerminal ==
    /\ arg.fn = "assistantMessageToResponse"
    /\ pulled = 0
    /\ pulled' = 1
    /\ LET r == eventToSSEChunks(event, state)
       IN  /\ state' = r.state
           /\ written' = writeChunks(written, r.chunks)
    /\ UNCHANGED requestVars
    /\ UNCHANGED <<pc, upstreamCalls, aborted, listeners, connClosed, closed,
                   clientDisconnected, iterationErrorMessage, event, arrival,
                   outcome, response, caughtError>>

\* parseDataUrl applied to a base64 data URI and then, when it returned,
\* to the data URI built from the mimeType and the data it returned
ParseDataUrl ==
    /\ arg.fn = "parseDataUrl"
    /\ Len(result) < 2
    /\ IF result = <<>> THEN TRUE ELSE result[1].outcome = "return"
    /\ result' = Append(result,
                        IF result = <<>> THEN parseDataUrlBase64(arg.value)
                        ELSE parseDataUrlBase64(
                                [mime |-> result[1].mimeType,
                                 payload |-> result[1].data]))
    /\ UNCHANGED <<pc, authorized, body, model, accessToken, context,
                   imagesIngested, upstreamCalls, aborted, listeners,
                   connClosed, response, caughtError, finalMessage, peer, arg>>
    /\ UNCHANGED inboundVars
    /\ UNCHANGED ingestVars
    /\ UNCHANGED streamVars

\* parseToolArguments applied to the arguments text of a tool_calls entry
ParseToolArguments ==
    /\ arg.fn = "parseToolArguments"
    /\ result = <<>>
    /\ result' = <<parseToolArguments(arg.value)>>
    /\ UNCHANGED <<pc, authorized, body, model, accessToken, context,
                   imagesIngested, upstreamCalls, aborted, listeners,
                   connClosed, response, caughtError, finalMessage, peer, arg>>
    /\ UNCHANGED inboundVars
    /\ UNCHANGED ingestVars
    /\ UNCHANGED streamVars

FunctionSpec ==
    FunctionInit /\ [][\/ AssembleResponse
                       \/ TranslateTerminal
                       \/ ParseDataUrl
                       \/ ParseToolArguments]_vars



(***************************************************************************)
(* Properties                                                              *)
(***************************************************************************)
Indices(kindOrSrc, field) ==
    {i \in DOMAIN written : written[i][field] = kindOrSrc}

DoneCount == Cardinality(Indices("done", "kind"))

\* the frames the step has appended to written
Appended == SubSeq(written', Len(written) + 1, Len(written'))

\* the step is the loop body translating the event it pulled
Translates ==
    /\ pc = "writeSSEStream"
    /\ pc' = "writeSSEStream"
    /\ pulled' = pulled + 1

\* the step is an upstream pull raising while the client is connected
RaisesConnected ==
    /\ pc = "writeSSEStream"
    /\ ~clientDisconnected
    /\ iterationErrorMessage' # iterationErrorMessage

\* C1: however upstream iteration ends, writeSSEStream writes the line
\* data: [DONE] exactly once, as the last data written, and ends the response
\* exactly once: [DONE] is never written twice nor the response ended twice,
\* and once writeSSEStream has returned there is exactly one [DONE], it is
\* the last frame written, and the response has been ended once.
C1_DoneOnceLastThenEnd ==
    /\ DoneCount <= 1
    /\ response.endCount <= 1
    /\ outcome.returned =>
          /\ DoneCount = 1
          /\ written[Len(written)] = DoneLine
          /\ response.endCount = 1

\* C1 witness: iteration raised after a content chunk was written, and
\* writeSSEStream has returned
C1_Witness ==
    /\ outcome.returned
    /\ outcome.iterationErrorMessage = "boom"
    /\ Indices("content", "kind") # {}
    /\ written[Len(written)] = DoneLine

\* C2: once the close listener has set clientDisconnected, writeSSEStream
\* performs no further write to the response.
C2_NoWriteAfterDisconnect ==
    [][clientDisconnected => written' = written]_vars

\* C3: if the connection closes while the streaming response is in progress,
\* the AbortController passed to the upstream call becomes aborted, and an
\* aborted signal stays aborted.
C3_CloseAbortsUpstream ==
    [][/\ (pc = "writeSSEStream" /\ ~connClosed /\ connClosed') => aborted'
       /\ aborted => aborted']_vars

\* C3 witness: the connection closed between two events of a stream and the
\* signal is aborted
C3_Witness ==
    /\ pc = "writeSSEStream"
    /\ pulled > 0
    /\ clientDisconnected
    /\ aborted

\* the error frame the catch block is to write for an iteration failure
ErrorFrame(message) ==
    [Frame("error") EXCEPT !.text = message, !.type = "server_error",
                           !.code = "upstream_model_error", !.src = "error"]

\* what C4 says of a raising pull, given the message the error frame carries
RaiseHandled(frameMessage) ==
    /\ Len(Appended) >= 2
    /\ Appended[1] = ErrorFrame(frameMessage)
    /\ Appended[Len(Appended)] = DoneLine
    /\ \A i \in 2..Len(Appended) : Appended[i].kind # "error"
    /\ state'.streamFinishReason =
          IF state.streamFinishReason = Null THEN "content_filter"
          ELSE state.streamFinishReason
    /\ outcome'.returned
    /\ pc' = "afterStream"
    /\ caughtError' = NoError

\* C4 as stated: when a pull raises and the client is connected, exactly one
\* error frame carrying the iteration failure's message is written before
\* [DONE], finishReason becomes content_filter only if unset, and
\* writeSSEStream returns normally.
C4_ErrorFrameCarriesFailure ==
    [][RaisesConnected => RaiseHandled(iterationErrorMessage')]_vars

\* C4 amended: the same, the error frame's message being the iteration
\* failure's message, or "Upstream model error." when that message is empty.
C4_ErrorFrameCarriesFailureOrDefault ==
    [][RaisesConnected =>
          RaiseHandled(IF iterationErrorMessage' = ""
                       THEN "Upstream model error."
                       ELSE iterationErrorMessage')]_vars

\* C4 witness: a pull raised after a done event had set the finish reason,
\* the client connected: the error frame precedes [DONE] and the finish
\* reason is the done event's
C4_Witness ==
    /\ outcome.returned
    /\ ~outcome.clientDisconnected
    /\ outcome.iterationErrorMessage = "boom"
    /\ outcome.streamFinishReason = "length"
    /\ Len(written) >= 2
    /\ written[Len(written) - 1] = ErrorFrame("boom")

\* C5: streamSimple is called only after API-key validation, body parsing,
\* model resolution, token acquisition and request translation have all
\* succeeded; a request on which one of them failed makes no upstream call,
\* commits no SSE header or frame, and is answered with a JSON error.
C5_UpstreamOnlyAfterTranslation ==
    /\ upstreamCalls > 0 =>
          authorized /\ body.parsed /\ model /\ accessToken /\ context
    /\ ~context =>
          /\ upstreamCalls = 0
          /\ written = <<>>
          /\ response.contentType # "text/event-stream"
          /\ response.headersSent => pc = "finished"
    /\ (pc = "finished" /\ ~context /\ route = "POST /v1/chat/completions") =>
          /\ caughtError # NoError
          /\ response.contentType = "application/json"
          /\ response.jsonBody = errorCode(caughtError)
          /\ response.statusCode = errorStatus(caughtError)
          /\ response.statusCode >= 400
          /\ response.endCount = 1

\* C5 witness: an image ingestion failed after the token was acquired, and
\* the request was answered 400 image_not_supported
C5_Witness ==
    /\ pc = "finished"
    /\ accessToken
    /\ ~context
    /\ response.statusCode = 400
    /\ response.jsonBody = "image_not_supported"
    /\ upstreamCalls = 0


\* C6: streamFinishReason is assigned at most once: once it is non-null no
\* later event changes it.
C6_FinishReasonSetOnce ==
    [][state.streamFinishReason # Null =>
          state'.streamFinishReason = state.streamFinishReason]_vars

ToolFrames == Indices("tool_start", "kind") \cup Indices("tool_args", "kind")

\* C7: toolCallIndexMap is append-only: a step never removes or overwrites
\* an entry, and every tool-call frame a step writes for a content index
\* that was already mapped carries the slot the index was mapped to.
C7_ToolCallIndexMapAppendOnly ==
    [][LET old == state.toolCallIndexMap
           new == state'.toolCallIndexMap
       IN  /\ \A k \in DOMAIN old : k \in DOMAIN new /\ new[k] = old[k]
           /\ \A i \in DOMAIN Appended :
                 (Appended[i].kind \in {"tool_start", "tool_args"}
                    /\ Appended[i].cidx \in DOMAIN old)
                 => Appended[i].slot = old[Appended[i].cidx]]_vars

\* C7 witness: a content index first referenced by a delta and then by a
\* start, both frames carrying slot 0
C7_Witness ==
    \E i, j \in ToolFrames :
        /\ i < j
        /\ written[i].kind = "tool_args"
        /\ written[j].kind = "tool_start"
        /\ written[i].cidx = written[j].cidx
        /\ written[i].slot = 0
        /\ written[j].slot = 0
        /\ DOMAIN state.toolCallIndexMap = {written[i].cidx}

\* C8: the N distinct content indices referenced by tool-call events have N
\* distinct slots 0..N-1, a content index referenced for the first time gets
\* the next slot, and every tool-call frame written for a content index
\* carries that index's slot.
C8_SlotsDistinctMonotoneStable ==
    /\ [](LET map == state.toolCallIndexMap
              N == Cardinality(DOMAIN map)
          IN  /\ {map[k] : k \in DOMAIN map} = 0..(N - 1)
              /\ \A i \in ToolFrames :
                    /\ written[i].cidx \in DOMAIN map
                    /\ written[i].slot = map[written[i].cidx])
    /\ [][LET old == state.toolCallIndexMap
              new == state'.toolCallIndexMap
              fresh == DOMAIN new \ DOMAIN old
          IN  /\ Cardinality(fresh) <= 1
              /\ \A k \in fresh : new[k] = Cardinality(DOMAIN old)]_vars

\* C8 witness: content index MaxContentIndex appears first and gets slot 0,
\* content index 0 appears second and gets slot 1, and a repeated delta for
\* the first index carries slot 0 again
C8_Witness ==
    /\ Len(written) = 3
    /\ written[1].kind = "tool_start"
    /\ written[1].cidx = MaxContentIndex
    /\ written[1].slot = 0
    /\ written[2].kind = "tool_args"
    /\ written[2].cidx = 0
    /\ written[2].slot = 1
    /\ written[3].kind = "tool_args"
    /\ written[3].cidx = MaxContentIndex
    /\ written[3].slot = 0

\* the frames that carried text of content index k, by the event type that
\* produced them
TextFrames(src, k) == {i \in Indices(src, "src") : written[i].cidx = k}

\* C9: the text of a content index reaches the client either through
\* text_delta chunks or through one text_end chunk, never through both and
\* never through more than one text_end chunk.
C9_OneEmissionPath ==
    \A k \in ContentIndices :
        /\ ~(TextFrames("text_delta", k) # {} /\ TextFrames("text_end", k) # {})
        /\ Cardinality(TextFrames("text_end", k)) <= 1

\* the content index and the full text a text_end event carries
TextEndIndex(e) ==
    IF e.contentIndex # NoNumber THEN e.contentIndex
    ELSE IF e.index # NoNumber THEN e.index
    ELSE 0

TextEndText(e) ==
    IF e.content # "" THEN e.content
    ELSE IF e.text # "" THEN e.text
    ELSE e.delta

\* C10: a text_end event with non-empty full text for a content index that
\* has emitted no delta writes exactly one content chunk with that text and
\* appends the text to accumulatedText; a text_end event for a content index
\* that has emitted a delta writes nothing and leaves the StreamState
\* unchanged.
C10_TextEndEmitsOnlyWithoutDelta ==
    [][(Translates /\ event'.object /\ event'.type = "text_end") =>
          LET k == TextEndIndex(event')
              text == TextEndText(event')
          IN  /\ (text # "" /\ TextFrames("text_delta", k) = {}) =>
                    /\ Len(Appended) = 1
                    /\ Appended[1].kind = "content"
                    /\ Appended[1].text = text
                    /\ state'.accumulatedText = state.accumulatedText \o text
              /\ TextFrames("text_delta", k) # {} =>
                    /\ Appended = <<>>
                    /\ state' = state]_vars

\* C10 witness: a text_end for an index without deltas was emitted, a delta
\* for index 0 followed, and the text_end for index 0 pulled last emitted
\* nothing
C10_Witness ==
    /\ pc = "writeSSEStream"
    /\ pulled = 3
    /\ event.type = "text_end"
    /\ TextEndIndex(event) = 0
    /\ Len(written) = 2
    /\ written[1].src = "text_end"
    /\ written[1].text = "d"
    /\ written[2].src = "text_delta"
    /\ written[2].cidx = 0
    /\ state.accumulatedText = "da"

\* the step keeps every frame already written, in place
KeepsWritten ==
    /\ Len(written') >= Len(written)
    /\ SubSeq(written', 1, Len(written)) = written

\* the response body of HelloScenario: role-delta chunk, content-delta chunk
\* "hello", finish-reason chunk stop, data: [DONE]
HelloBody ==
    <<[Frame("role") EXCEPT !.src = "start"],
      [Frame("content") EXCEPT !.text = "hello", !.src = "text_delta",
                               !.cidx = 0],
      [Frame("finish") EXCEPT !.finish = "stop", !.src = "done"],
      DoneLine>>

\* C11: frames are written in upstream arrival order: no step removes or
\* moves a frame already written, frames are written only by writeSSEStream,
\* the step that translates an event writes exactly the chunks of that event
\* (all of them, and none of another event) before the next event is pulled,
\* and when the upstream yielded start, text_delta "hello", done(stop) and
\* then ended, the client connected, the body is exactly the four frames
\* role, content "hello", finish stop, [DONE].
C11_ArrivalOrder ==
    /\ [][/\ KeepsWritten
          /\ written' # written => pc = "writeSSEStream"
          /\ Translates =>
                /\ Appended = eventToSSEChunks(event', state).chunks
                /\ \A i \in DOMAIN Appended :
                      Appended[i].src = getEventType(event')]_vars
    /\ []((/\ arrival = Len(HelloScenario)
           /\ outcome.returned
           /\ ~outcome.clientDisconnected
           /\ outcome.iterationErrorMessage = Null) => written = HelloBody)

\* C11 witness: the upstream yielded exactly HelloScenario and ended, the
\* client connected, and the four frames were written
C11_Witness ==
    /\ arrival = Len(HelloScenario)
    /\ outcome.returned
    /\ ~outcome.clientDisconnected
    /\ outcome.iterationErrorMessage = Null
    /\ Len(written) = 4
    /\ written[2].text = "hello"

\* an error event has been translated on this stream
ErrorEventSeen ==
    \E i \in DOMAIN written : written[i].src = "error"

\* C12: an upstream error event does not terminate the stream: the step
\* that translates it writes exactly one error frame of type server_error
\* and code upstream_model_error, changes no field of the StreamState, and
\* neither ends the response nor leaves the loop; and every event translated
\* after an error event is translated and written as eventToSSEChunks
\* prescribes.
C12_ErrorEventNotTerminal ==
    [][/\ (Translates /\ getEventType(event') = "error") =>
             /\ Len(Appended) = 1
             /\ Appended[1].kind = "error"
             /\ Appended[1].type = "server_error"
             /\ Appended[1].code = "upstream_model_error"
             /\ state' = state
             /\ response' = response
             /\ closed' = closed
             /\ ~outcome'.returned
       /\ (Translates /\ ErrorEventSeen) =>
             /\ Appended = eventToSSEChunks(event', state).chunks
             /\ state' = eventToSSEChunks(event', state).state]_vars

\* C12 witness: an error event arrived after a done event had set the
\* finish reason, the finish reason is unchanged, and a text delta that
\* arrived after the error was written
C12_Witness ==
    /\ pc = "writeSSEStream"
    /\ Len(written) = 3
    /\ written[1].src = "done"
    /\ written[2].kind = "error"
    /\ written[2].text = "n"
    /\ written[3].kind = "content"
    /\ state.streamFinishReason = "length"
    /\ response.endCount = 0

UsageFrames == Indices("usage", "kind")

\* the event is a done event carrying a usage object
DoneWithUsage(e) ==
    /\ getEventType(e) = "done"
    /\ e.doneMessage.present
    /\ e.doneMessage.usage.present

\* C13: streamUsage is set by the translation of a done event carrying a
\* usage object and by nothing else, so it is present exactly when such an
\* event was processed; a usage chunk is written at most once, only when the
\* request asked for it and usage is present, it carries that usage and
\* stands immediately before [DONE], the last frame; and a stream that has
\* returned with usage asked for and present has written it.
C13_UsageChunkIffRequestedAndCaptured ==
    /\ [][/\ state'.streamUsage # state.streamUsage =>
                (Translates /\ DoneWithUsage(event'))
          /\ (Translates /\ DoneWithUsage(event')) =>
                state'.streamUsage.present
          /\ state.streamUsage.present => state'.streamUsage.present]_vars
    /\ [](/\ Cardinality(UsageFrames) <= 1
          /\ \A i \in UsageFrames :
                /\ body.include_usage
                /\ state.streamUsage.present
                /\ written[i].usage = state.streamUsage
                /\ i = Len(written) - 1
                /\ written[Len(written)] = DoneLine
          /\ (outcome.returned /\ body.include_usage
                /\ state.streamUsage.present) => UsageFrames # {})

\* C13 witness: a done event with usage was translated, a text delta
\* followed, the request asked for usage, and the usage chunk stands between
\* the content chunk and [DONE]
C13_Witness ==
    /\ outcome.returned
    /\ body.include_usage
    /\ Len(written) = 4
    /\ written[1].src = "done"
    /\ written[2].kind = "content"
    /\ written[3].kind = "usage"
    /\ written[3].usage.prompt_tokens = 4
    /\ written[3].usage.total_tokens = 6
    /\ written[4] = DoneLine

\* the finish reason the stop-reason table gives for a done event's reason
MappedFinishReason(reason) ==
    CASE reason \in {"tool_calls", "tool_call", "toolUse", "tool_use"} ->
            "tool_calls"
      [] reason \in {"max_tokens", "length"} -> "length"
      [] reason \in {"content_filter", "error", "aborted"} -> "content_filter"
      [] OTHER -> "stop"

\* C14: a done event is translated into exactly one chunk, with an empty
\* delta (no content, no tool call) and the finish reason the table gives:
\* tool_calls, tool_call, toolUse, tool_use -> tool_calls; max_tokens,
\* length -> length; content_filter, error, aborted -> content_filter;
\* anything else, a missing reason included -> stop.
C14_StopReasonMapping ==
    pc = "translated" =>
        /\ Len(written) = 1
        /\ written[1].kind = "finish"
        /\ written[1].text = ""
        /\ written[1].slot = NoNumber
        /\ written[1].finish = MappedFinishReason(event.reason)
        /\ written[1].finish \in {"tool_calls", "length", "content_filter", "stop"}

\* C14 witness: a done event with reason aborted was translated into a
\* content_filter chunk, and the StreamState holds content_filter
C14_Witness ==
    /\ pc = "translated"
    /\ event.reason = "aborted"
    /\ written[1].finish = "content_filter"
    /\ state.streamFinishReason = "content_filter"

KnownEventTypes ==
    {"start", "text_delta", "text_end", "toolcall_start", "toolcall_delta",
     "error", "done"}

\* the event is not an object, or its type is none the translator knows
UnknownEvent(e) == ~e.object \/ getEventType(e) \notin KnownEventTypes

\* C15: the translation of a non-object event or of an event of unknown type
\* writes no chunk and changes no field of the StreamState (nor anything
\* else of the response), so the chunks written before and after it and the
\* final state are those of the sequence without it.
C15_UnknownEventIgnored ==
    [][(Translates /\ UnknownEvent(event')) =>
          /\ Appended = <<>>
          /\ written' = written
          /\ state' = state
          /\ UNCHANGED <<closed, clientDisconnected, iterationErrorMessage,
                         outcome, response, aborted>>]_vars

\* C15 witness: an event of unknown type that carries a delta was pulled
\* third, after a text delta and another ignored event, and only the text
\* delta's chunk and text are there
C15_Witness ==
    /\ pc = "writeSSEStream"
    /\ pulled = 3
    /\ event.type = "thinking_delta"
    /\ event.delta = "t"
    /\ Len(written) = 1
    /\ written[1].text = "a"
    /\ state.accumulatedText = "a"

\* the step is a call of toPiImageContent
StartsIngestion == imagesStarted' = imagesStarted + 1

\* the ranges image ingestion is to block, for an IPv4 address
BlockedV4(a) ==
    \/ a[1] \in {0, 10, 127}
    \/ a[1] = 100 /\ a[2] \in 64..127
    \/ a[1] = 169 /\ a[2] = 254
    \/ a[1] = 172 /\ a[2] \in 16..31
    \/ a[1] = 192 /\ a[2] = 168

\* the host of a URL is a blocked literal: localhost or a name under
\* localhost, an IPv4 address in a blocked range, the IPv6 unspecified or
\* loopback address, a unique-local or link-local IPv6 address, or an
\* IPv4-mapped IPv6 address that embeds a blocked IPv4 address
BlockedLiteral(host) ==
    \/ /\ host.kind = "domain"
       /\ \E n \in DOMAIN host.labels :
             /\ host.labels[n] = "localhost"
             /\ \A m \in DOMAIN host.labels : m > n => host.labels[m] = ""
    \/ host.kind = "ipv4" /\ BlockedV4(host.v4)
    \/ /\ host.kind = "ipv6"
       /\ \/ host.v6 \in {NoV6, <<0, 0, 0, 0, 0, 0, 0, 1>>}
          \/ host.v6[1] \in 64512..65023
          \/ host.v6[1] \in 65152..65215
          \/ IsMappedGroups(host.v6) /\ BlockedV4(EmbeddedV4(host.v6))

\* the image_url value is a URL that the scheme/host check is to reject
UnsafeUrl(urlValue) ==
    /\ ~urlValue.blank
    /\ urlValue.scheme \notin {Null, "data"}
    /\ \/ urlValue.scheme \notin {"http", "https"}
       \/ BlockedLiteral(urlValue.host)

\* C16: toPiImageContent called on a URL whose scheme is not http or https,
\* or whose host is a blocked literal, throws ImageNotSupportedError in that
\* call, and no fetch is issued for it.
C16_UnsafeUrlRejectedBeforeFetch ==
    [][(StartsIngestion /\ UnsafeUrl(image')) =>
          /\ caughtError'.name = "ImageNotSupportedError"
          /\ pc' = "finished"
          /\ fetchesInFlight' = fetchesInFlight
          /\ imagePhase' = "none"]_vars

\* the step is a failure of the request translation
TranslationFails ==
    /\ pc = "openAIRequestToContext"
    /\ caughtError' # caughtError

\* C17: image ingestion fails only with ImageNotSupportedError, which is
\* answered with HTTP 400 and code image_not_supported, and a failed
\* ingestion yields no payload.
C17_OnlyImageNotSupportedError ==
    [][TranslationFails =>
          /\ caughtError'.name = "ImageNotSupportedError"
          /\ response'.statusCode = 400
          /\ response'.jsonBody = "image_not_supported"
          /\ imagesIngested' = imagesIngested]_vars

\* C18: readResponseBodyLimited never holds more than the cap in its chunks;
\* once the cumulative byte count exceeds the cap the reader has been
\* cancelled, the ingestion has failed with ImageNotSupportedError and
\* nothing more is read; and the step on which the count exceeds the cap
\* adds nothing to the chunks and returns no payload.
C18_BodyNeverBufferedBeyondCap ==
    /\ [](/\ chunksBytes <= MAX_REMOTE_IMAGE_BYTES
          /\ totalBytes > MAX_REMOTE_IMAGE_BYTES =>
                /\ readerCancelled
                /\ imagePhase = "none"
                /\ pc = "finished"
                /\ caughtError.name = "ImageNotSupportedError")
    /\ [][totalBytes' > MAX_REMOTE_IMAGE_BYTES =>
             /\ chunksBytes' = chunksBytes
             /\ imagesIngested' = imagesIngested]_vars

\* C18 witness: a chunk was held, the next one took the count over the cap,
\* and the read was cancelled and the request answered 400
C18_Witness ==
    /\ totalBytes > MAX_REMOTE_IMAGE_BYTES
    /\ chunksBytes > 0
    /\ readerCancelled
    /\ response.statusCode = 400
    /\ response.jsonBody = "image_not_supported"

\* C19: at most one image fetch is in flight; toPiImageContent is called on
\* the next image part only when no fetch is in flight, every earlier image
\* part of the request has been ingested and none has failed; and a fetch
\* is only ever started by such a call.
C19_ImagesIngestedOneAtATime ==
    /\ [](fetchesInFlight <= 1)
    /\ [][/\ StartsIngestion =>
                /\ fetchesInFlight = 0
                /\ imagesIngested = imagesStarted
                /\ caughtError = NoError
          /\ fetchesInFlight' > fetchesInFlight => StartsIngestion]_vars

\* C19 witness: the first image was fetched and ingested, and the fetch of
\* the second image is in flight
C19_Witness ==
    /\ imagesStarted = 2
    /\ imagesIngested = 1
    /\ mimeType # NoMime
    /\ imagePhase = "fetch"
    /\ fetchesInFlight = 1

\* C20: when the ingestion of an image part fails, openAIRequestToContext
\* rejects with that error: handleChatCompletions ends with it, no context
\* exists, streamSimple is never called and no SSE header or frame is sent.
C20_IngestionFailureForwardsNothing ==
    /\ [][TranslationFails =>
             /\ pc' = "finished"
             /\ response'.jsonBody = errorCode(caughtError')
             /\ response'.statusCode = errorStatus(caughtError')]_vars
    /\ []((pc # "openAIRequestToContext" /\ accessToken /\ ~context) =>
             /\ pc = "finished"
             /\ caughtError # NoError
             /\ upstreamCalls = 0
             /\ written = <<>>
             /\ response.contentType = "application/json")

\* C20 witness: one message had been converted and one image ingested when
\* the ingestion of the second image failed; no upstream call was made
C20_Witness ==
    /\ pc = "finished"
    /\ messages = 1
    /\ imagesIngested = 1
    /\ imagesStarted = 2
    /\ caughtError.name = "ImageNotSupportedError"
    /\ ~context
    /\ upstreamCalls = 0


(***************************************************************************)
(* C21.  The frames written to a request's response and its StreamState    *)
(* are what its own upstream events give when translated one after the     *)
(* other from a fresh StreamState, whatever events another request served  *)
(* at the same time receives and however the two loops interleave.         *)
(***************************************************************************)
RECURSIVE Replay(_, _)
\* the frames and the StreamState after the first n events, translated
\* alone
Replay(events, n) ==
    IF n = 0 THEN Result(<<>>, createStreamState)
    ELSE LET before == Replay(events, n - 1)
             r == eventToSSEChunks(events[n], before.state)
         IN  Result(before.chunks \o r.chunks, r.state)

Reported(usage, keys) ==
    LET finite == {i \in 1..Len(keys) :
                      usage[keys[i]] \notin {NoNumber, NotFinite}}
    IN  IF finite = {} THEN 0 ELSE usage[keys[SetMin(finite)]]

\* the usage object reports a total
ReportsTotal(usage) ==
    \E k \in {"totalTokens", "total_tokens"} :
        usage[k] \notin {NoNumber, NotFinite}

InputCount(usage) == Reported(usage, <<"input", "inputTokens", "prompt_tokens">>)
OutputCount(usage) ==
    Reported(usage, <<"output", "outputTokens", "completion_tokens">>)
CacheReadCount(usage) ==
    Reported(usage, <<"cacheRead", "cacheReadTokens", "cached_tokens">>)
TotalCount(usage) == Reported(usage, <<"totalTokens", "total_tokens">>)

\* a done event with a message that carries a usage object was translated
DoneUsageTranslated ==
    /\ arg.fn = "assistantMessageToResponse"
    /\ pulled = 1
    /\ event.doneMessage.usage.present

\* C22 as stated: on a done event whose message carries a usage object,
\* prompt_tokens = input + cache-read, completion_tokens = output and
\* total_tokens = the explicit total if the upstream reports one, otherwise
\* prompt_tokens + completion_tokens; missing or non-finite fields count
\* as 0.
C22_UsageNormalized ==
    DoneUsageTranslated =>
        LET usage == event.doneMessage.usage
        IN  /\ state.streamUsage.present
            /\ state.streamUsage.prompt_tokens
                  = InputCount(usage) + CacheReadCount(usage)
            /\ state.streamUsage.completion_tokens = OutputCount(usage)
            /\ state.streamUsage.total_tokens
                  = IF ReportsTotal(usage) THEN TotalCount(usage)
                    ELSE InputCount(usage) + CacheReadCount(usage)
                         + OutputCount(usage)

\* C22, amended: the same, with total_tokens = the explicit total if the
\* upstream reports one other than 0, otherwise prompt_tokens +
\* completion_tokens.
C22_UsageNormalizedNonZeroTotal ==
    DoneUsageTranslated =>
        LET usage == event.doneMessage.usage
        IN  /\ state.streamUsage.present
            /\ state.streamUsage.prompt_tokens
                  = InputCount(usage) + CacheReadCount(usage)
            /\ state.streamUsage.completion_tokens = OutputCount(usage)
            /\ state.streamUsage.total_tokens
                  = IF TotalCount(usage) # 0 THEN TotalCount(usage)
                    ELSE InputCount(usage) + CacheReadCount(usage)
                         + OutputCount(usage)

\* a usage object with input, cache-read and a total of 0, and an output
\* that is not a finite number, was translated
C22_Witness ==
    /\ DoneUsageTranslated
    /\ event.doneMessage.usage.input = 3
    /\ event.doneMessage.usage.cacheRead = 1
    /\ event.doneMessage.usage.output = NotFinite
    /\ event.doneMessage.usage.totalTokens = 0
    /\ state.streamUsage.prompt_tokens = 4
    /\ state.streamUsage.completion_tokens = 0
    /\ state.streamUsage.total_tokens = 4

(***************************************************************************)
(* C23.  For a terminal message that carries a usage object and is given   *)
(* both to the non-streaming assembler and to the stream adapter's done    *)
(* handler, the assembled completion's prompt_tokens, completion_tokens,   *)
(* total_tokens and cached_tokens equal those the done handler computed.   *)
(***************************************************************************)
C23_AssemblerUsageEqualsStreamUsage ==
    (/\ arg.fn = "assistantMessageToResponse"
     /\ pulled = 1
     /\ finalMessage.usage.present
     /\ response.completion.present)
        => response.completion.usage = state.streamUsage

(***************************************************************************)
(* C24.  An assembled completion has exactly one choice, of index 0; its   *)
(* finish_reason is tool_calls when at least one tool call was extracted   *)
(* from the terminal message, whatever stop reason the message reports,    *)
(* and the stop-reason mapping of the reported stop reason otherwise.      *)
(***************************************************************************)
\* the items of the array a message's tool calls are extracted from
ToolCallSource(message) ==
    LET structured == IF message.toolCalls.array THEN message.toolCalls.items
                      ELSE IF message.tool_calls.array
                      THEN message.tool_calls.items
                      ELSE <<>>
    IN  IF structured # <<>> THEN structured
        ELSE [i \in 1..message.contentToolCalls |-> "object"]

C29_Base64IngestionIdempotent ==
    arg.fn = "parseDataUrl" =>
        /\ (Len(result) >= 1 /\ result[1].outcome = "return")
              => result[1].data = arg.value.payload
        /\ Len(result) = 2 => result[2] = result[1]

(***************************************************************************)
(* C30.  parseToolArguments returns for every arguments text: the parsed   *)
(* value for valid JSON, {raw: <the original text>} for invalid JSON and   *)
(* an empty object for an empty or white-space-only text.                  *)
(***************************************************************************)
C30_ToolArgumentsNeverFatal ==
    (arg.fn = "parseToolArguments" /\ result # <<>>) =>
        /\ result[1].outcome = "return"
        /\ CASE arg.value.core = "" -> result[1].kind = "object"
             [] arg.value.core \in {"{\"a\":1}", "{}", "1", "null"} ->
                   result[1].kind = "json" /\ result[1].json = arg.value.core
             [] OTHER ->
                   result[1].kind = "raw" /\ result[1].raw = arg.value

\* an arguments text that is not JSON and has white space around it was
\* translated into {raw: <that text>}
C30_Witness ==
    /\ arg.fn = "parseToolArguments"
    /\ arg.value = [core |-> "{", padded |-> TRUE]
    /\ result # <<>>
    /\ result[1].kind = "raw"
    /\ result[1].raw.padded

(***************************************************************************)
(* C25.  In the non-streaming path, when the upstream yields no terminal   *)
(* message no 200 completion is sent: the request fails and the client     *)
(* gets exactly one answer, HTTP 500 with code proxy_internal_error.       *)
(***************************************************************************)
C25_NoTerminalMessageIsGenericError ==
    finalMessage = NullMessage =>
        \/ /\ pc = "assistantMessageToResponse"
           /\ ~response.headersSent
           /\ response.endCount = 0
        \/ /\ pc = "finished"
           /\ caughtError = Err("Error", Null)
           /\ response.statusCode = 500
           /\ response.jsonBody = "proxy_internal_error"
           /\ response.endCount = 1
           /\ ~response.completion.present
           /\ written = <<>>

\* the upstream resolved to no terminal message and the request was answered
C25_Witness ==
    /\ finalMessage = NullMessage
    /\ pc = "finished"
    /\ response.statusCode = 500
    /\ upstreamCalls = 1

(***************************************************************************)
(* C26.  The proxy uses exactly the model id the client supplied, without  *)
(* alias mapping or fallback to a default: the model resolved for a        *)
(* request is the one it names, and a request naming an id that is not a   *)
(* known model is answered with HTTP 400, code unknown_model, and no       *)
(* upstream call is made for it.                                           *)
(***************************************************************************)
C26_ExactModelOrUnknownModel ==
    /\ (requestedModelId # Null /\ model) => resolvedModelId = requestedModelId
    /\ (requestedModelId # Null /\ requestedModelId \notin CodexModelIds) =>
          \/ pc = "resolveCodexModel"
          \/ /\ pc = "finished"
             /\ response.statusCode = 400
             /\ response.jsonBody = "unknown_model"
             /\ upstreamCalls = 0

(***************************************************************************)
(* C27.  With PROXY_API_KEY configured, a POST /v1/chat/completions or     *)
(* GET /v1/models request whose Authorization header is not "Bearer "      *)
(* followed by that key is rejected with an error response before its body *)
(* is read, and neither an upstream call nor a model listing is performed  *)
(* for it; without PROXY_API_KEY no request is rejected by this test.      *)
(* The statement as given takes the header literally; the amended one      *)
(* takes the key up to the white space around it.                          *)
(***************************************************************************)
KeyRoutes == {"POST /v1/chat/completions", "GET /v1/models"}

BearerOf(header, key) ==
    header.present /\ header.scheme = "Bearer" /\ header.key = key

RejectedForKey ==
    /\ pc = "finished"
    /\ caughtError.name = "InvalidRequestError"
    /\ caughtError.code \in {"missing_authorization", "invalid_api_key"}
    /\ response.statusCode = 400
    /\ response.jsonBody = caughtError.code
    /\ response.endCount = 1
    /\ bodyPromise = "none"
    /\ bodyTotalBytes = 0
    /\ ~body.parsed
    /\ upstreamCalls = 0

\* a request that is being rejected is rejected before anything else is done
RejectsStep(mismatch) ==
    (/\ pc = "handleRequest"
     /\ pc' # "handleRequest"
     /\ route \in KeyRoutes
     /\ expectedApiKey # ""
     /\ mismatch)
        => RejectedForKey'

\* a rejection by this test stays the request's only answer, and there is
\* none when no key is configured
RejectionFinal ==
    (caughtError.code \in {"missing_authorization", "invalid_api_key"}) =>
        /\ RejectedForKey
        /\ expectedApiKey \notin {"", Null}
        /\ route \in KeyRoutes

C27_ApiKeyLiteralHeader ==
    /\ []RejectionFinal
    /\ [][RejectsStep(~BearerOf(authHeader, expectedApiKey)
                      \/ authHeader.padded)]_vars

C27_ApiKeyUpToWhiteSpace ==
    /\ []RejectionFinal
    /\ [][RejectsStep(~BearerOf(authHeader, expectedApiKey))]_vars

\* a chat request with a wrong key was rejected
C27_Witness ==
    /\ route = "POST /v1/chat/completions"
    /\ authHeader = Authorization("Bearer", FALSE, "w")
    /\ RejectedForKey
    /\ caughtError.code = "invalid_api_key"

(***************************************************************************)
(* C28.  Reading the inbound body is bounded by BODY_LIMIT_BYTES: as soon  *)
(* as the bytes received exceed the limit the read is rejected and         *)
(* answered with HTTP 413, code payload_too_large; the chunk that crossed  *)
(* the limit and every later chunk are not buffered; a late end event does *)
(* not turn the rejection into a success; a body of exactly the limit is   *)
(* accepted.                                                               *)
(***************************************************************************)
BodyWithinLimit ==
    /\ bodyChunksBytes <= BODY_LIMIT_BYTES
    /\ bodyTotalBytes <= BODY_LIMIT_BYTES => bodyChunksBytes = bodyTotalBytes
    /\ bodyTotalBytes > BODY_LIMIT_BYTES =>
          /\ bodyPromise = "rejected"
          /\ pc = "finished"
          /\ caughtError.name = "PayloadTooLargeError"
          /\ response.statusCode = 413
          /\ response.jsonBody = "payload_too_large"
          /\ response.endCount = 1
          /\ ~body.parsed
          /\ upstreamCalls = 0

\* a chunk that leaves the total above the limit is not buffered; one that
\* leaves it at or below the limit is buffered and the read goes on
ChunkStep ==
    bodyTotalBytes' > bodyTotalBytes =>
        IF bodyTotalBytes' > BODY_LIMIT_BYTES
        THEN bodyChunksBytes' = bodyChunksBytes
        ELSE /\ bodyChunksBytes' = bodyTotalBytes'
             /\ bodyPromise' = "pending"
             /\ pc' = "parseChatRequest"

\* the end event of a body within the limit resolves the read
EndStep ==
    (requestEnded' /\ ~requestEnded /\ bodyPromise = "pending"
       /\ caughtError' \notin {Err("Error", Null)})
        => bodyPromise' = "resolved"

C28_BodyBoundedByLimit ==
    /\ []BodyWithinLimit
    /\ [][ChunkStep /\ EndStep]_vars

\* the read was rejected, then another chunk and the end event arrived
C28_Witness ==
    /\ bodyPromise = "rejected"
    /\ requestEnded
    /\ bodyTotalBytes = MaxBodyBytes
    /\ bodyChunksBytes = BODY_LIMIT_BYTES
    /\ response.statusCode = 413

(***************************************************************************)
(* C31.  Tool-call extraction looks at the structured array first: when    *)
(* the message holds a non-empty array under toolCalls or tool_calls, the  *)
(* extracted calls are that array's object entries, and the content items  *)
(* of type toolCall are used only when no structured array is present.     *)
(* The assembler reports how many calls were extracted.                    *)
(***************************************************************************)
ObjectEntries(items) == Cardinality({i \in 1..Len(items) : items[i] = "object"})

C31_StructuredArrayFirst ==
    response.completion.present =>
        LET extracted == response.completion.choices[1].tool_calls
            toolCalls == finalMessage.toolCalls
            tool_calls == finalMessage.tool_calls
        IN  IF toolCalls.array /\ toolCalls.items # <<>>
            THEN extracted = ObjectEntries(toolCalls.items)
            ELSE IF tool_calls.array /\ tool_calls.items # <<>>
            THEN extracted = ObjectEntries(tool_calls.items)
            ELSE IF toolCalls.array \/ tool_calls.array
            THEN extracted = 0
            ELSE extracted = finalMessage.contentToolCalls

(***************************************************************************)
(* C32.  In every reachable StreamState nextToolCallIndex is the number of *)
(* entries of toolCallIndexMap, the map is injective and its slots are     *)
(* exactly 0 .. nextToolCallIndex - 1; nextToolCallIndex never decreases.  *)
(***************************************************************************)
C32_NextIndexCountsTheMap ==
    /\ [](LET map == state.toolCallIndexMap
              next == state.nextToolCallIndex
          IN  /\ next = Cardinality(DOMAIN map)
              /\ \A j, k \in DOMAIN map : map[j] = map[k] => j = k
              /\ {map[k] : k \in DOMAIN map} = 0..(next - 1))
    /\ [][state'.nextToolCallIndex >= state.nextToolCallIndex]_vars

\* two content indices are mapped, the larger one to slot 0
C32_Witness ==
    /\ state.nextToolCallIndex = 2
    /\ DOMAIN state.toolCallIndexMap = {0, MaxContentIndex}
    /\ state.toolCallIndexMap[MaxContentIndex] = 0
    /\ state.toolCallIndexMap[0] = 1

(***************************************************************************)
(* C33.  A toolcall_start event that carries no content index opens a new  *)
(* tool call: the slot its frame carries was given to no earlier tool call *)
(* of the stream, whatever content indices earlier events used.            *)
(***************************************************************************)
C33_StartWithoutIndexOpensNewCall ==
    [][(/\ pulled' = pulled + 1
        /\ event'.type = "toolcall_start"
        /\ readNumber(event', <<"contentIndex", "index", "toolCallIndex">>)
              = NoNumber)
          => \A i \in DOMAIN Appended :
                Appended[i].kind = "tool_start"
                   => \A k \in DOMAIN state.toolCallIndexMap :
                         state.toolCallIndexMap[k] # Appended[i].slot]_vars

(***************************************************************************)
(* C34.  Once the client's disconnect has been observed no upstream event  *)
(* is translated: the loop pulls at most one more event and leaves without *)
(* calling eventToSSEChunks on it, so no event received after the          *)
(* disconnect changes the StreamState, and the outcome that is returned    *)
(* holds the state as it was.                                              *)
(***************************************************************************)
C34_NoTranslationAfterDisconnect ==
    [][clientDisconnected =>
         /\ [state' EXCEPT !.streamFinishReason = state.streamFinishReason]
               = state
         /\ pulled' # pulled =>
               /\ pc = "writeSSEStream"
               /\ pc' # "writeSSEStream"
               /\ state' = state
               /\ outcome'.returned
               /\ outcome'.accumulatedText = state.accumulatedText
               /\ outcome'.streamFinishReason = state.streamFinishReason
               /\ outcome'.streamUsage = state.streamUsage
               /\ \A i \in DOMAIN Appended :
                     Appended[i].kind \in {"usage", "done"}]_vars

\* a text_delta event was pulled after the disconnect and its text is not in
\* accumulatedText
C34_Witness ==
    /\ clientDisconnected
    /\ pc = "afterStream"
    /\ pulled = 2
    /\ event.type = "text_delta"
    /\ state.accumulatedText = ""
    /\ state.nextToolCallIndex = 1

(***************************************************************************)
(* C35.  Every HTTP request issued while a remote image is ingested,       *)
(* including the requests made by following a redirect, targets a URL that *)
(* has passed the scheme test and the blocked-host test; a redirect to a   *)
(* blocked host is not followed.                                           *)
(***************************************************************************)
C35_EveryRequestPassedTheCheck ==
    request # NoImage =>
        /\ request.scheme \in {"http", "https"}
        /\ ~isBlockedImageHostname(request.host)

(***************************************************************************)
(* C36.  Whatever the route and the outcome (success, an error thrown      *)
(* before the headers are sent, an error thrown after), the response of a  *)
(* request that handleRequest has finished was ended exactly once and is   *)
(* never ended twice, and no status code or JSON body is written once the  *)
(* headers have been sent.                                                 *)
(***************************************************************************)
C36_EndedOnceNoWriteAfterHeaders ==
    /\ [](/\ response.endCount <= 1
          /\ pc = "finished" => response.endCount = 1
          /\ response.endCount = 1 => response.headersSent)
    /\ [][response.headersSent =>
            /\ response'.statusCode = response.statusCode
            /\ response'.jsonBody = response.jsonBody
            /\ response'.contentType = response.contentType
            /\ response'.headersSent]_vars

\* a completion was sent and ended, then an error reached the catch block
C36_Witness ==
    /\ pc = "finished"
    /\ caughtError = Err("Error", Null)
    /\ response.statusCode = 200
    /\ response.jsonBody = "chat.completion"
    /\ response.completion.present
    /\ response.endCount = 1

(***************************************************************************)
(* C37.  In the non-streaming path a terminal message whose stop reason is *)
(* error or aborted is not turned into a 200 completion with finish reason *)
(* content_filter: the request fails with 502 upstream_model_error, or 429 *)
(* for a rate or usage limit; a 200 completion carries content_filter only *)
(* for the upstream stop reason content_filter.                            *)
(***************************************************************************)
\* the stop reason a terminal message reports, under the first of its three
\* names that holds one
ReportedStopReason(message) ==
    IF message.stopReason # Null THEN message.stopReason
    ELSE IF message.stop_reason # Null THEN message.stop_reason
    ELSE message.reason

C37_ErrorStopReasonIsNoCompletion ==
    (finalMessage.present /\ pc = "finished") =>
        IF ReportedStopReason(finalMessage) \in {"error", "aborted"}
        THEN /\ ~response.completion.present
             /\ \/ /\ response.statusCode = 502
                   /\ response.jsonBody = "upstream_model_error"
                \/ /\ response.statusCode = 429
                   /\ response.jsonBody = "rate_limit"
        ELSE /\ response.completion.present
             /\ response.statusCode = 200
             /\ response.completion.choices[1].finish_reason = "content_filter"
                   => ReportedStopReason(finalMessage) = "content_filter"

(***************************************************************************)
(* C39.  In every reachable StreamState accumulatedText is the             *)
(* concatenation, in emission order, of the content strings of the         *)
(* content-delta chunks emitted so far, which come from text_delta and     *)
(* text_end events only; no other event type changes it.                   *)
(***************************************************************************)
\* the content strings of the first n frames, concatenated
RECURSIVE ContentUpTo(_, _)
ContentUpTo(frames, n) ==
    IF n = 0 THEN ""
    ELSE ContentUpTo(frames, n - 1)
         \o (IF frames[n].kind = "content" THEN frames[n].text ELSE "")

ContentText(frames) == ContentUpTo(frames, Len(frames))

C39_AccumulatedTextIsEmittedContent ==
    /\ state.accumulatedText = ContentText(written)
    /\ \A i \in DOMAIN written :
          written[i].kind = "content"
             => written[i].src \in {"text_delta", "text_end"}
    /\ outcome.returned => outcome.accumulatedText = state.accumulatedText

\* a text_delta chunk and then a text_end chunk of another content index
C39_Witness ==
    /\ state.accumulatedText = "ad"
    /\ Len(written) = 3
    /\ written[1].src = "text_delta"
    /\ written[2].kind = "tool_start"
    /\ written[3].src = "text_end"

(***************************************************************************)
(* C38.  When every pull of an upstream event settles, a streaming request *)
(* whose upstream yields finitely many events, or whose client             *)
(* disconnects, eventually reaches the state where data: [DONE] has been   *)
(* written last, the response has been ended once and writeSSEStream has   *)
(* returned its outcome record.                                            *)
(***************************************************************************)
StreamDone ==
    /\ outcome.returned
    /\ written # <<>>
    /\ written[Len(written)] = DoneLine
    /\ response.endCount = 1

\* a step in which the upstream yields an event
Yields == pulled' # pulled \/ event' # event

C38_FiniteStreamIsDone ==
    (<>[][~Yields]_vars \/ <>clientDisconnected) => <>StreamDone

\* the statement without the finiteness of the upstream
C38_EveryStreamIsDone == <>StreamDone

\* the stream was closed after the client had disconnected mid-stream
C38_Witness ==
    /\ StreamDone
    /\ pc = "finished"
    /\ outcome.clientDisconnected
    /\ pulled > 0
    /\ state.accumulatedText = "hello"


====
